---- MODULE Spec2Model ----
(***************************************************************************)
(* Library inventory back end: borrow / return / buy / cancel requests     *)
(* against the relational store, the wallet ledger, the idempotency cache  *)
(* of the buy endpoint and the database-backed job runner.                 *)
(*                                                                         *)
(* Every engine operation runs in one SERIALIZABLE transaction.  A         *)
(* transaction is two steps: it starts (and takes the per-user advisory    *)
(* lock when the code takes one, waiting for it if it is held), and its    *)
(* body runs on the committed state and commits.  A transaction during     *)
(* which another transaction committed a write may instead end in a        *)
(* serialization failure, which the HTTP layer answers with 500.           *)
(* Time is in milliseconds, as in the code.                                *)
(***************************************************************************)
EXTENDS Integers, Sequences, FiniteSets, TLC

(***************************** bounds **************************************)
\* Number of HTTP requests that can be in flight at once.
MaxSlots == 2
\* Borrow rows created where all operations interleave.
MaxBorrowRows == 1
\* Purchase rows created where all operations interleave, and where
\* purchases are canceled.
MaxPurchaseRows == 2
\* Borrow rows of the borrow-and-return specification.
MaxBorrows == 4
\* Borrow rows of the repeated-call specification.
MaxReborrows == 3
\* Purchase rows of the per-book limit and of the one-key specifications.
MaxBuys == 3
\* Purchase rows of the total limit specification.
MaxLimitBuys == 11
\* Clock steps of the cancellation specification.
MaxCancelTicks == 2
\* Clock steps where all operations interleave.
MaxTicks == 1
\* Number of job runners polling the Job table where all operations interleave.
MaxWorkers == 1
\* Number of job runners of the job specifications.
MaxJobWorkers == 2
\* Clock steps of the restock job specification.
MaxRestockTicks == 3
\* Borrow rows of the restock job specification.
MaxRestockBorrows == 2
\* Clock steps of the lease specification.
MaxLeaseTicks == 11
\* Job rows of the lease specification (the restock and the reminder job).
MaxLeaseJobs == 2
\* Clock steps of the insufficient-funds specification.
MaxFundsTicks == 11
\* Attempt numbers given to calculateBackoff.
MaxBackoffAttempts == 20
\* Clock steps before the call of calculateBackoff.
MaxBackoffTicks == 4
MaxCountBuys == 12
MaxScopeBuys == 4
MaxAttemptTicks == 12
MaxOrderBorrows == 6
\* Clock steps of the reminder job specification.
MaxReminderTicks == 3
\* Borrow rows of the reminder job specification.
MaxReminderBorrows == 1
MaxExpiryTicks == 4
MaxRefusalKeys == 3
MaxRefusalBorrows == 3
MaxRefusalTicks == 2
MaxWalletTicks == 2

(************************** program constants ******************************)
MAX_ACTIVE_BORROWS == 3
BORROW_DURATION_DAYS == 3
LOW_STOCK_THRESHOLD == 1
WALLET_MILESTONE_CENTS == 200000
MAX_COPIES_PER_BOOK == 2
MAX_TOTAL_COPIES == 10
CANCEL_WINDOW_MS == 5 * 60 * 1000
IDEMPOTENCY_KEY_EXPIRY_MS == 24 * 60 * 60 * 1000
INITIAL_BALANCE_CENTS == 10000
RESTOCK_DELAY_MS == 60 * 60 * 1000
BORROW_DURATION_MS == BORROW_DURATION_DAYS * 24 * 60 * 60 * 1000

(***************************** identities **********************************)
\* User emails and the character codes of each (for the advisory lock key).
Users == {"a@b.c", "d@b.c", "e@b.c"}
EmailChars ==
    [u \in Users |->
        CASE u = "a@b.c" -> <<97, 64, 98, 46, 99>>
          [] u = "d@b.c" -> <<100, 64, 98, 46, 99>>
          [] u = "e@b.c" -> <<101, 64, 98, 46, 99>>]

\* Seeded books (Book rows are never deleted) and one ISBN with no Book row.
Books == {"b1", "b2", "b3", "b4", "b5", "b6"}
NoBook == "b0"
Isbns == Books \cup {NoBook}

\* Idempotency keys a client may send.
\* X-Idempotency-Key values, in the order a client uses them.
Keys == <<"k1", "k2", "k3", "k4", "k5", "k6", "k7", "k8", "k9", "k10", "k11",
          "k12", "k13", "k14">>

\* NULL of a nullable timestamp / id column, and of a nullable key column.
NoTime == 0 - 1
NoKey == <<>>

\* Prices of the seeded books (cents); data of books.json, not of the code.
sellPriceCents == [b \in Books |-> IF b = "b1" THEN 100000 ELSE 1500]
borrowPriceCents == [b \in Books |-> 300]
stockPriceCents == [b \in Books |-> IF b = "b1" THEN 6000 ELSE 1000]

(****************************** state **************************************)
VARIABLES
    now,              \* the clock (ms)
    ticks,            \* clock advances so far
    users,            \* User rows (emails)
    availableCopies,  \* Book.availableCopies, by book
    seededCopies,     \* Book.seededCopies, by book
    borrows,          \* Borrow rows; a row's id is its index
    purchases,        \* Purchase rows; a row's id is its index
    movements,        \* WalletMovement rows
    events,           \* Event rows
    emails,           \* SimulatedEmail rows
    jobs,             \* Job rows; a row's id is its index
    milestoneReached, \* LibraryWallet.milestoneReached
    idemKeys,         \* IdempotencyKey rows
    reqs,             \* HTTP requests in flight, by slot
    last,             \* the response delivered last, with its request
    workers           \* job runners, by worker

vars == <<now, ticks, users, availableCopies, seededCopies, borrows,
          purchases, movements, events, emails, jobs, milestoneReached,
          idemKeys, reqs, last, workers>>

clockVars == <<now, ticks>>

dbVars == <<users, availableCopies, seededCopies, borrows, purchases,
            movements, events, emails, jobs, milestoneReached>>

Slots == 1..MaxSlots
Workers == 1..MaxJobWorkers

(************************** pure helpers ***********************************)
RECURSIVE hashFrom(_, _, _)
hashFrom(text, i, hash) ==
    IF i > Len(text) THEN hash
    ELSE hashFrom(text, i + 1, (hash * 32 - hash) + text[i])

\* The emails of the model are short enough that the 32-bit fold never wraps.
hashTextToInt(text) ==
    LET h == hashFrom(text, 1, 0) IN IF h < 0 THEN 0 - h ELSE h

lockKeyOf == [u \in Users |-> hashTextToInt(EmailChars[u])]

RECURSIVE SumAmounts(_)
SumAmounts(ms) ==
    IF ms = {} THEN 0
    ELSE LET m == CHOOSE x \in ms : TRUE
         IN m.amountCents + SumAmounts(ms \ {m})

\* SUM(amountCents) over the wallet's movements.
getBalance == SumAmounts(movements)

Ids(rows) == 1..Len(rows)

ActiveBorrowIds(u, b) ==
    {i \in Ids(borrows) :
        borrows[i].userId = u /\ borrows[i].bookId = b /\ borrows[i].activeKey # NoKey}

ActiveBorrowCount(u) ==
    Cardinality({i \in Ids(borrows) :
        borrows[i].userId = u /\ borrows[i].activeKey # NoKey})

ReturnedBorrowIds(u, b) ==
    {i \in Ids(borrows) :
        borrows[i].userId = u /\ borrows[i].bookId = b /\ borrows[i].status = "RETURNED"}

\* findFirst ... orderBy returnedAt desc: a row with the latest returnedAt.
MostRecentReturned(u, b) ==
    CHOOSE i \in ReturnedBorrowIds(u, b) :
        \A j \in ReturnedBorrowIds(u, b) :
            \/ borrows[j].returnedAt < borrows[i].returnedAt
            \/ (borrows[j].returnedAt = borrows[i].returnedAt /\ j <= i)

CountedAny(p) == TRUE

\* The status filter of buyBook's two purchase counts: status 'ACTIVE'.
Counted(p) == p.status = "ACTIVE"

BookPurchases(u, b) ==
    Cardinality({i \in Ids(purchases) :
        purchases[i].userId = u /\ purchases[i].bookId = b /\ Counted(purchases[i])})

TotalPurchases(u) ==
    Cardinality({i \in Ids(purchases) :
        purchases[i].userId = u /\ Counted(purchases[i])})

Movement(type, amount, key) == [type |-> type, amountCents |-> amount, dedupeKey |-> key]
Event(type, key) == [type |-> type, dedupeKey |-> key]
Email(type, key) == [type |-> type, dedupeKey |-> key]

(************************ rows created by the code *************************)
DEFAULT_MAX_ATTEMPTS == 10

BorrowRow(u, b) ==
    [userId |-> u, bookId |-> b, borrowedAt |-> now,
     dueAt |-> now + BORROW_DURATION_MS, returnedAt |-> NoTime,
     status |-> "ACTIVE", activeKey |-> <<u, b>>]

PurchaseRow(u, b) ==
    [userId |-> u, bookId |-> b, priceCents |-> sellPriceCents[b],
     purchasedAt |-> now, canceledAt |-> NoTime, status |-> "ACTIVE"]

JobRow(type, key, b, bid, u, runAt) ==
    [type |-> type, status |-> "PENDING", runAt |-> runAt, attempts |-> 0,
     maxAttempts |-> DEFAULT_MAX_ATTEMPTS, lastError |-> "NULL",
     lockedAt |-> NoTime, completedAt |-> NoTime, activeKey |-> key,
     bookId |-> b, borrowId |-> bid, userEmail |-> u]

\* A Job row with bookId, type RESTOCK and activeKey not NULL.
HasLiveRestockJobNever(js, b) == FALSE

HasLiveRestockJob(js, b) ==
    \E j \in Ids(js) :
        js[j].bookId = b /\ js[j].type = "RESTOCK" /\ js[j].activeKey # NoKey

\* Stock watcher: the job, the email and the two events it adds, if any.
\* db is [jobs, emails, events]; the result has the same shape.
scheduleRestockIfNeeded(db, b) ==
    IF HasLiveRestockJob(db.jobs, b) THEN db
    ELSE LET jid == Len(db.jobs) + 1 IN
         [jobs |-> Append(db.jobs,
                     JobRow("RESTOCK", <<"RESTOCK", b>>, b, 0, "none",
                            now + RESTOCK_DELAY_MS)),
          emails |-> db.emails \cup {Email("LOW_STOCK", <<"LOW_STOCK", b, jid>>)},
          events |-> db.events \cup
                       {Event("LOW_STOCK_EMAIL", <<"LOW_STOCK_EMAIL", b, jid>>),
                        Event("RESTOCK_SCHEDULED", <<"RESTOCK_SCHEDULED", jid>>)}]

IsLowStockAlways(copies) == TRUE

\* The low-stock test of borrow and buy on the re-read Book row.
IsLowStock(copies) == copies = LOW_STOCK_THRESHOLD

\* Milestone watcher on the transaction's movements.
\* db is [reached, emails, events, movements]; the result has the same shape.
\* balanceCents > WALLET_MILESTONE_CENTS of checkWalletMilestone.
MilestoneExceededAlways(balanceCents) == TRUE

MilestoneExceeded(balanceCents) == balanceCents > WALLET_MILESTONE_CENTS

checkWalletMilestone(db) ==
    IF db.reached THEN db
    ELSE IF MilestoneExceeded(SumAmounts(db.movements))
         THEN [db EXCEPT
                 !.reached = TRUE,
                 !.emails = @ \cup {Email("MILESTONE", <<"MILESTONE", 2000>>)},
                 !.events = @ \cup {Event("MILESTONE_EMAIL", <<"MILESTONE_EMAIL", 2000>>)}]
         ELSE db

CanDecrementUnchecked(b) == TRUE

CanDecrementAtZero(b) == availableCopies[b] >= 0

\* WHERE clause of the conditional decrement: availableCopies >= 1.
CanDecrement(b) == availableCopies[b] >= 1

HasActiveBorrowNever(u, b) == FALSE

\* borrowBook's findFirst on activeKey not null: the idempotent path.
HasActiveBorrow(u, b) == ActiveBorrowIds(u, b) # {}

HasReturnedBorrowNever(u, b) == FALSE

\* returnBook's findFirst on status RETURNED: the idempotent path.
HasReturnedBorrow(u, b) == ReturnedBorrowIds(u, b) # {}

IsCanceledNever(p) == FALSE

\* cancelPurchase's test of the locked row: already CANCELED.
IsCanceled(p) == p.status = "CANCELED"

BorrowLimitReachedAbove(u) == ActiveBorrowCount(u) > MAX_ACTIVE_BORROWS

\* borrowBook's test of the count of the user's rows with activeKey not null.
BorrowLimitReached(u) == ActiveBorrowCount(u) >= MAX_ACTIVE_BORROWS

BookBuyLimitReachedAbove(u, b) == BookPurchases(u, b) > MAX_COPIES_PER_BOOK

\* buyBook's test of the count of the user's ACTIVE purchases of the book.
BookBuyLimitReached(u, b) == BookPurchases(u, b) >= MAX_COPIES_PER_BOOK

\* The refund movement of a cancel carries -purchase.priceCents.
RefundAmountPositive(p) == p.priceCents

RefundAmount(p) == 0 - p.priceCents

TotalBuyLimitReachedAbove(u) == TotalPurchases(u) > MAX_TOTAL_COPIES

\* buyBook's test of the count of the user's ACTIVE purchases.
TotalBuyLimitReached(u) == TotalPurchases(u) >= MAX_TOTAL_COPIES

(**************************** HTTP requests ********************************)
NoLock == 0 - 1
NoResponse == [status |-> 0, code |-> "none", id |-> 0, isExisting |-> FALSE,
               rowStatus |-> "none"]
IdleReq == [pc |-> "idle", op |-> "none", user |-> "none", isbn |-> NoBook,
            pid |-> 0, key |-> "none", stale |-> FALSE, lock |-> NoLock,
            resp |-> NoResponse]

Response(status, code, id, isExisting, rowStatus) ==
    [status |-> status, code |-> code, id |-> id, isExisting |-> isExisting,
     rowStatus |-> rowStatus]

\* A response as the client receives it: the request q, the response and
\* whether the idempotency middleware replayed it from a stored record.
Delivered(q, resp, replayed) ==
    [op |-> q.op, user |-> q.user, isbn |-> q.isbn, pid |-> q.pid, key |-> q.key,
     resp |-> resp, replayed |-> replayed]

NoneDelivered == Delivered(IdleReq, NoResponse, FALSE)

\* endpoint = method:path of the buy route
Endpoint(isbn) == <<"POST", "books", isbn, "buy">>

IdemRecordByKey(k, u, ep) == {x \in idemKeys : x.key = k}

IdemRecord(k, u, ep) ==
    {x \in idemKeys : x.key = k /\ x.userId = u /\ x.endpoint = ep}

\* A slot is free when it holds no request; a request takes the lowest free
\* slot.
SlotFree(r) == reqs[r].pc = "idle"

CanIssue(r) == SlotFree(r) /\ \A s \in Slots : s < r => ~SlotFree(s)

InFlight(op) == Cardinality({s \in Slots : reqs[s].op = op /\ reqs[s].pc \in {"issued", "body"}})

\* Rows are created while the tables are below the given bounds.
BorrowRoom(cap) == Len(borrows) + InFlight("borrow") < cap

PurchaseRoom(cap) == Len(purchases) + InFlight("buy") < cap

\* The transaction's snapshot is taken by its first statement: before the wait
\* for the advisory lock.
HasSnapshot(q) == q.pc \in {"issued", "body"}

\* Transactions other than r's have a concurrent committed write.
MarkStale(r, rq) ==
    [s \in Slots |->
        IF s = r THEN rq
        ELSE IF HasSnapshot(reqs[s]) THEN [reqs[s] EXCEPT !.stale = TRUE]
        ELSE reqs[s]]

\* The advisory lock of a key is held by a transaction that took it.
LockHeld(k) == \E s \in Slots : reqs[s].pc = "body" /\ reqs[s].lock = k

\* borrow, return and buy take pg_advisory_xact_lock(hash(email)) first.
TakesAdvisoryLock(op) == op \in {"borrow", "return", "buy"}

\* The lock a transaction of op by u holds once it runs.
LockTaken(op, u) == IF TakesAdvisoryLock(op) THEN lockKeyOf[u] ELSE NoLock

\* The transaction can start: its advisory lock, if it takes one, is free.
CanBegin(op, u) == TakesAdvisoryLock(op) => ~LockHeld(lockKeyOf[u])

\* The request as its transaction starts: it runs once its advisory lock, if
\* it takes one, is free, and waits for it otherwise.
Started(q) ==
    IF CanBegin(q.op, q.user)
    THEN [q EXCEPT !.pc = "body", !.lock = LockTaken(q.op, q.user)]
    ELSE [q EXCEPT !.pc = "issued"]

\* userIdentification, then the handler starts its transaction (borrow,
\* return, cancel).
Issue(r, op, u, isbn, pid) ==
    /\ CanIssue(r)
    /\ op \in {"borrow", "return", "cancel"}
    /\ users' = users \cup {u}
    /\ reqs' = [reqs EXCEPT ![r] =
                  Started([IdleReq EXCEPT !.op = op, !.user = u, !.isbn = isbn,
                                          !.pid = pid])]
    /\ UNCHANGED <<clockVars, availableCopies, seededCopies, borrows, purchases,
                   movements, events, emails, jobs, milestoneReached, idemKeys,
                   last, workers>>

\* The stored record is replayed when it has not expired.
IsFresh(x) == x.expiresAt > now

\* userIdentification and the idempotency middleware of the buy route.
IssueBuy(r, u, isbn, k) ==
    /\ CanIssue(r)
    /\ users' = users \cup {u}
    /\ LET rq == [IdleReq EXCEPT !.op = "buy", !.user = u, !.isbn = isbn, !.key = k]
           found == IdemRecord(k, u, Endpoint(isbn))
           keyRequired == Response(400, "IDEMPOTENCY_KEY_REQUIRED", 0, FALSE, "none")
       IN IF k = "none"
          THEN /\ last' = Delivered(rq, keyRequired, FALSE)
               /\ UNCHANGED <<reqs, idemKeys>>
          ELSE IF \E x \in found : IsFresh(x)
          THEN /\ last' = Delivered(rq, (CHOOSE x \in found : TRUE).response, TRUE)
               /\ UNCHANGED <<reqs, idemKeys>>
          ELSE /\ reqs' = [reqs EXCEPT ![r] = Started(rq)]
               /\ idemKeys' = idemKeys \ found
               /\ UNCHANGED last
    /\ UNCHANGED <<clockVars, availableCopies, seededCopies, borrows, purchases,
                   movements, events, emails, jobs, milestoneReached, workers>>

\* A waiting transaction takes the advisory lock once it is free.
Begin(r) ==
    /\ reqs[r].pc = "issued"
    /\ CanBegin(reqs[r].op, reqs[r].user)
    /\ reqs' = [reqs EXCEPT ![r].pc = "body",
                            ![r].lock = LockTaken(reqs[r].op, reqs[r].user)]
    /\ UNCHANGED <<clockVars, idemKeys, last, workers>>
    /\ UNCHANGED dbVars

\* The request after its transaction: the lock ends with the transaction and
\* the response is sent.  After the buy handler the 'finish' callback that
\* stores the idempotency record is still to run.
Answer(r, resp) ==
    IF reqs[r].op = "buy"
    THEN [reqs[r] EXCEPT !.pc = "responded", !.lock = NoLock, !.stale = FALSE,
                         !.resp = resp]
    ELSE IdleReq

RejectLogged(r, status, code) ==
    LET resp == Response(status, code, 0, FALSE, "none")
    IN /\ reqs' = [reqs EXCEPT ![r] = Answer(r, resp)]
       /\ last' = Delivered(reqs[r], resp, FALSE)
       /\ events' = events \cup {Event("ERROR", <<code, 0>>)}
       /\ UNCHANGED <<users, availableCopies, seededCopies, borrows, purchases,
                      movements, emails, jobs, milestoneReached>>

\* A thrown AppError rolls the transaction back.
Reject(r, status, code) ==
    LET resp == Response(status, code, 0, FALSE, "none")
    IN /\ reqs' = [reqs EXCEPT ![r] = Answer(r, resp)]
       /\ last' = Delivered(reqs[r], resp, FALSE)
       /\ UNCHANGED dbVars

\* A read-only success (the idempotent paths).
ReturnExisting(r, id, rowStatus) ==
    LET resp == Response(200, "OK", id, TRUE, rowStatus)
    IN /\ reqs' = [reqs EXCEPT ![r] = Answer(r, resp)]
       /\ last' = Delivered(reqs[r], resp, FALSE)
       /\ UNCHANGED dbVars

\* A committed write: the response, and the other transactions see the write.
Committed(r, id, rowStatus) ==
    LET resp == Response(200, "OK", id, FALSE, rowStatus)
    IN /\ reqs' = MarkStale(r, Answer(r, resp))
       /\ last' = Delivered(reqs[r], resp, FALSE)

(************************ borrow and return ********************************)
IncrementedByNone(copies) == copies

\* "availableCopies" + 1 of the UPDATE of return and cancel.
Incremented(copies) == copies + 1

ReturnedKeepsKey(row) == [row EXCEPT !.returnedAt = now, !.status = "RETURNED"]

\* The data of returnBook's update of the Borrow row.
Returned(row) ==
    [row EXCEPT !.activeKey = NoKey, !.returnedAt = now, !.status = "RETURNED"]

\* borrowBook: the transaction body and its commit.
BorrowBook(r) ==
    /\ reqs[r].pc = "body" /\ reqs[r].op = "borrow"
    /\ UNCHANGED <<clockVars, idemKeys, workers>>
    /\ LET u == reqs[r].user
           b == reqs[r].isbn
       IN IF b \notin Books THEN Reject(r, 404, "BOOK_NOT_FOUND")
          ELSE IF HasActiveBorrow(u, b)
          THEN ReturnExisting(r, CHOOSE i \in ActiveBorrowIds(u, b) : TRUE, "ACTIVE")
          ELSE IF BorrowLimitReached(u) THEN Reject(r, 409, "BORROW_LIMIT_EXCEEDED")
          ELSE IF ~CanDecrement(b) THEN Reject(r, 409, "NO_COPIES_AVAILABLE")
          ELSE LET bid == Len(borrows) + 1
                   row == BorrowRow(u, b)
                   copies == availableCopies[b] - 1
                   ms == movements \cup
                           {Movement("BORROW_INCOME", borrowPriceCents[b], <<"BORROW", bid>>)}
                   d0 == [jobs |-> Append(jobs,
                                     JobRow("REMINDER", <<"REMINDER", bid>>, "none", bid, u,
                                            row.dueAt)),
                          emails |-> emails,
                          events |-> events \cup {Event("BORROW", <<"BORROW", bid>>)}]
                   d1 == IF IsLowStock(copies) THEN scheduleRestockIfNeeded(d0, b) ELSE d0
                   d2 == checkWalletMilestone(
                           [reached |-> milestoneReached, emails |-> d1.emails,
                            events |-> d1.events, movements |-> ms])
               IN /\ availableCopies' = [availableCopies EXCEPT ![b] = copies]
                  /\ borrows' = Append(borrows, row)
                  /\ movements' = ms
                  /\ jobs' = d1.jobs
                  /\ emails' = d2.emails
                  /\ events' = d2.events
                  /\ milestoneReached' = d2.reached
                  /\ Committed(r, bid, "ACTIVE")
                  /\ UNCHANGED <<users, seededCopies, purchases>>

\* The reminder job of a returned borrow: status CANCELED, activeKey NULL.
CancelReminderJobs(js, bid) ==
    [j \in Ids(js) |->
        IF js[j].borrowId = bid /\ js[j].type = "REMINDER" /\ js[j].activeKey # NoKey
        THEN [js[j] EXCEPT !.status = "CANCELED", !.activeKey = NoKey]
        ELSE js[j]]

\* returnBook: the transaction body and its commit.
ReturnBook(r) ==
    /\ reqs[r].pc = "body" /\ reqs[r].op = "return"
    /\ UNCHANGED <<clockVars, idemKeys, workers>>
    /\ LET u == reqs[r].user
           b == reqs[r].isbn
       IN IF u \notin users THEN Reject(r, 404, "BORROW_NOT_FOUND")
          ELSE IF b \notin Books THEN Reject(r, 404, "BOOK_NOT_FOUND")
          ELSE IF ActiveBorrowIds(u, b) = {}
          THEN IF HasReturnedBorrow(u, b)
               THEN ReturnExisting(r, MostRecentReturned(u, b), "RETURNED")
               ELSE Reject(r, 404, "BORROW_NOT_FOUND")
          ELSE LET bid == CHOOSE i \in ActiveBorrowIds(u, b) : TRUE
               IN /\ borrows' = [borrows EXCEPT ![bid] = Returned(@)]
                  /\ availableCopies' = [availableCopies EXCEPT ![b] = Incremented(@)]
                  /\ jobs' = CancelReminderJobs(jobs, bid)
                  /\ events' = events \cup {Event("RETURN", <<"RETURN", bid>>)}
                  /\ Committed(r, bid, "RETURNED")
                  /\ UNCHANGED <<users, seededCopies, purchases, movements, emails,
                                 milestoneReached>>

(*************************** buy and cancel ********************************)
\* buyBook: the transaction body and its commit.
BuyBook(r) ==
    /\ reqs[r].pc = "body" /\ reqs[r].op = "buy"
    /\ UNCHANGED <<clockVars, idemKeys, workers>>
    /\ LET u == reqs[r].user
           b == reqs[r].isbn
       IN IF b \notin Books THEN Reject(r, 404, "BOOK_NOT_FOUND")
          ELSE IF BookBuyLimitReached(u, b) THEN Reject(r, 409, "BOOK_BUY_LIMIT_EXCEEDED")
          ELSE IF TotalBuyLimitReached(u) THEN Reject(r, 409, "TOTAL_BUY_LIMIT_EXCEEDED")
          ELSE IF ~CanDecrement(b) THEN Reject(r, 409, "NO_COPIES_AVAILABLE")
          ELSE LET pid == Len(purchases) + 1
                   copies == availableCopies[b] - 1
                   ms == movements \cup
                           {Movement("BUY_INCOME", sellPriceCents[b], <<"BUY", pid>>)}
                   d0 == [jobs |-> jobs, emails |-> emails,
                          events |-> events \cup {Event("BUY", <<"BUY", pid>>)}]
                   d1 == IF IsLowStock(copies) THEN scheduleRestockIfNeeded(d0, b) ELSE d0
                   d2 == checkWalletMilestone(
                           [reached |-> milestoneReached, emails |-> d1.emails,
                            events |-> d1.events, movements |-> ms])
               IN /\ availableCopies' = [availableCopies EXCEPT ![b] = copies]
                  /\ purchases' = Append(purchases, PurchaseRow(u, b))
                  /\ movements' = ms
                  /\ jobs' = d1.jobs
                  /\ emails' = d2.emails
                  /\ events' = d2.events
                  /\ milestoneReached' = d2.reached
                  /\ Committed(r, pid, "ACTIVE")
                  /\ UNCHANGED <<users, seededCopies, borrows>>

WindowExpiredAtLimit(p) == now - p.purchasedAt >= CANCEL_WINDOW_MS

\* The cancellation window test: now - purchasedAt > CANCEL_WINDOW_MS.
WindowExpired(p) == now - p.purchasedAt > CANCEL_WINDOW_MS

\* cancelPurchase: the transaction body and its commit.
CancelPurchase(r) ==
    /\ reqs[r].pc = "body" /\ reqs[r].op = "cancel"
    /\ UNCHANGED <<clockVars, idemKeys, workers>>
    /\ LET u == reqs[r].user
           pid == reqs[r].pid
       IN IF u \notin users THEN Reject(r, 404, "PURCHASE_NOT_FOUND")
          ELSE IF ~(pid \in Ids(purchases) /\ purchases[pid].userId = u)
          THEN Reject(r, 404, "PURCHASE_NOT_FOUND")
          ELSE IF IsCanceled(purchases[pid])
          THEN ReturnExisting(r, pid, "CANCELED")
          ELSE IF WindowExpired(purchases[pid])
          THEN Reject(r, 400, "CANCELLATION_WINDOW_EXPIRED")
          ELSE LET p == purchases[pid]
               IN /\ purchases' = [purchases EXCEPT ![pid] =
                                     [@ EXCEPT !.status = "CANCELED", !.canceledAt = now]]
                  /\ movements' = movements \cup
                        {Movement("CANCEL_REFUND", RefundAmount(p), <<"CANCEL", pid>>)}
                  /\ availableCopies' = [availableCopies EXCEPT ![p.bookId] = Incremented(@)]
                  /\ events' = events \cup {Event("CANCEL_BUY", <<"CANCEL_BUY", pid>>)}
                  /\ Committed(r, pid, "CANCELED")
                  /\ UNCHANGED <<users, seededCopies, borrows, emails, jobs,
                                 milestoneReached>>

IsStorableAny(resp) == TRUE

\* Only responses with statusCode < 500 are stored.
IsStorable(resp) == resp.status < 500

\* The 'finish' callback of the idempotency middleware: upsert with update {}.
StoreIdempotencyKey(r) ==
    /\ reqs[r].pc = "responded"
    /\ LET q == reqs[r]
           ep == Endpoint(q.isbn)
       IN idemKeys' =
            IF IsStorable(q.resp) /\ IdemRecord(q.key, q.user, ep) = {}
            THEN idemKeys \cup
                   {[key |-> q.key, userId |-> q.user, endpoint |-> ep,
                     statusCode |-> q.resp.status, response |-> q.resp,
                     expiresAt |-> now + IDEMPOTENCY_KEY_EXPIRY_MS]}
            ELSE idemKeys
    /\ reqs' = [reqs EXCEPT ![r] = IdleReq]
    /\ UNCHANGED <<clockVars, last, workers>>
    /\ UNCHANGED dbVars

\* A transaction that ran while another committed a write may be refused by
\* the store; the error handler answers 500 and nothing is changed.
SerializationFailure(r) ==
    /\ reqs[r].pc = "body"
    /\ reqs[r].stale
    /\ Reject(r, 500, "INTERNAL_ERROR")
    /\ UNCHANGED <<clockVars, idemKeys, workers>>

\* The clock advances by d ms.
Tick(d) ==
    /\ ticks' = ticks + 1
    /\ now' = now + d
    /\ UNCHANGED <<idemKeys, reqs, last, workers>>
    /\ UNCHANGED dbVars

(***************************** job runner **********************************)
LEASE_TIMEOUT_MS == 60000
MAX_BACKOFF_MS == 3600000
BASE_BACKOFF_MS == 60000

RECURSIVE Pow2(_)
Pow2(n) == IF n <= 0 THEN 1 ELSE 2 * Pow2(n - 1)

Min(a, b) == IF a < b THEN a ELSE b

\* The exponent from which BASE_BACKOFF_MS * 2^e no longer fits 32 bits (the
\* code computes in doubles, where the product only grows and the minimum is
\* MAX_BACKOFF_MS).
ExponentLimit == 15

\* The same with 2^attempts for 2^(attempts-1).
BackoffDelayFromTwo(attempts) ==
    IF attempts > ExponentLimit THEN MAX_BACKOFF_MS
    ELSE Min(BASE_BACKOFF_MS * Pow2(attempts), MAX_BACKOFF_MS)

\* The delay of calculateBackoff (added to Date.now()).
BackoffDelay(attempts) ==
    IF attempts - 1 > ExponentLimit THEN MAX_BACKOFF_MS
    ELSE Min(BASE_BACKOFF_MS * Pow2(attempts - 1), MAX_BACKOFF_MS)

calculateBackoff(attempts) == now + BackoffDelay(attempts)

IdleWorker == [pc |-> "idle", queue |-> <<>>, job |-> 0, attempts |-> 0,
               maxAttempts |-> 0, type |-> "none", lockedAt |-> NoTime,
               nextRunAt |-> NoTime, error |-> "NULL"]

\* A lease taken at lockedAt has expired at time t.
LeaseExpiredAlways(lockedAt, t) == TRUE

LeaseExpired(lockedAt, t) == lockedAt < t - LEASE_TIMEOUT_MS

\* WHERE clause of the findMany of processJobs.
IsDue(j) ==
    /\ jobs[j].activeKey # NoKey
    /\ \/ (jobs[j].status = "PENDING" /\ jobs[j].runAt <= now)
       \/ (jobs[j].status = "PROCESSING" /\ LeaseExpired(jobs[j].lockedAt, now))

\* WHERE clause of the claiming updateMany of processJob.
IsClaimable(j) ==
    /\ jobs[j].activeKey # NoKey
    /\ \/ jobs[j].status = "PENDING"
       \/ (jobs[j].status = "PROCESSING" /\ LeaseExpired(jobs[j].lockedAt, now))

\* The filter of processJobs on the rows read.
HasAttemptsLeft(j) == jobs[j].attempts < jobs[j].maxAttempts

RECURSIVE SortByRunAt(_)
SortByRunAt(S) ==
    IF S = {} THEN <<>>
    ELSE LET j == CHOOSE x \in S :
                    \A y \in S : jobs[x].runAt < jobs[y].runAt
                                 \/ (jobs[x].runAt = jobs[y].runAt /\ x <= y)
         IN <<j>> \o SortByRunAt(S \ {j})

\* processJobs: read the due jobs, ordered by runAt, at most 10.
Poll(w) ==
    /\ workers[w].pc = "idle"
    /\ LET due == SortByRunAt({j \in Ids(jobs) : IsDue(j)})
           first == SubSeq(due, 1, Min(Len(due), 10))
           claimable == SelectSeq(first, HasAttemptsLeft)
       IN /\ claimable # <<>>
          /\ workers' = [workers EXCEPT ![w] =
                           [IdleWorker EXCEPT !.pc = "claim", !.queue = claimable]]
    /\ UNCHANGED <<clockVars, idemKeys, reqs, last>>
    /\ UNCHANGED dbVars

\* Requests inside a transaction see a concurrent committed write.
MarkAllStale ==
    [s \in Slots |->
        IF HasSnapshot(reqs[s]) THEN [reqs[s] EXCEPT !.stale = TRUE] ELSE reqs[s]]

\* After the last job of the list the runner sleeps until the next poll.
NextJob(w) ==
    IF Len(workers[w].queue) > 1
    THEN [IdleWorker EXCEPT !.pc = "claim", !.queue = Tail(workers[w].queue)]
    ELSE IdleWorker

\* processJob: the claiming update and the read of the claimed row.
Claim(w) ==
    /\ workers[w].pc = "claim"
    /\ LET j == Head(workers[w].queue)
       IN IF IsClaimable(j)
          THEN /\ jobs' = [jobs EXCEPT ![j] =
                             [@ EXCEPT !.status = "PROCESSING", !.lockedAt = now,
                                       !.attempts = @ + 1]]
               /\ workers' = [workers EXCEPT ![w] =
                                [@ EXCEPT !.pc = "handler", !.job = j,
                                          !.attempts = jobs[j].attempts + 1,
                                          !.maxAttempts = jobs[j].maxAttempts,
                                          !.type = jobs[j].type,
                                          !.lockedAt = now]]
               /\ reqs' = MarkAllStale
          ELSE /\ workers' = [workers EXCEPT ![w] = NextJob(w)]
               /\ UNCHANGED <<jobs, reqs>>
    /\ UNCHANGED <<clockVars, idemKeys, last, users, availableCopies, seededCopies,
                   borrows, purchases, movements, events, emails, milestoneReached>>

\* Event.dedupeKey is unique: creating an event whose key exists is refused.
EventExistsNever(e) == FALSE

EventExists(e) == e \in events

\* handleReminderJob looks the email up by its dedupeKey before creating it.
HasReminderEmailNever(mail) == FALSE

HasReminderEmail(mail) == mail \in emails

\* handleReminderJob sends only for a borrow whose activeKey is set.
BorrowIsActiveAlways(bid) == TRUE

BorrowIsActive(bid) == borrows[bid].activeKey # NoKey

NeededOne(b) == 1

\* needed = seededCopies - availableCopies of the restock handler.
Needed(b) == seededCopies[b] - availableCopies[b]

InsufficientFundsNever(cost) == FALSE

InsufficientFunds(cost) == getBalance < cost

HandlerDone(w, err) == [workers EXCEPT ![w] = [@ EXCEPT !.pc = "finish", !.error = err]]

\* handleRestockJob: the transaction body and its commit.
HandleRestockJob(w) ==
    /\ workers[w].pc = "handler" /\ workers[w].type = "RESTOCK"
    /\ UNCHANGED <<clockVars, idemKeys, last, users, seededCopies, borrows,
                   purchases, emails, jobs, milestoneReached>>
    /\ LET j == workers[w].job
           b == jobs[j].bookId
           needed == Needed(b)
           cost == needed * stockPriceCents[b]
           key == <<"RESTOCK", j>>
           delivered == Event("RESTOCK_DELIVERED", <<"RESTOCK_DELIVERED", j>>)
       IN IF needed <= 0
          THEN /\ workers' = HandlerDone(w, "NULL")
               /\ UNCHANGED <<availableCopies, movements, events, reqs>>
          ELSE IF InsufficientFunds(cost)
          THEN /\ workers' = HandlerDone(w, "INSUFFICIENT_FUNDS")
               /\ UNCHANGED <<availableCopies, movements, events, reqs>>
          ELSE IF EventExists(delivered)
          THEN \* event.create violates Unique(dedupeKey): the transaction rolls back
               /\ workers' = HandlerDone(w, "UNIQUE_CONSTRAINT")
               /\ UNCHANGED <<availableCopies, movements, events, reqs>>
          ELSE /\ movements' =
                    IF \E m \in movements : m.dedupeKey = key THEN movements
                    ELSE movements \cup {Movement("RESTOCK_EXPENSE", 0 - cost, key)}
               /\ availableCopies' = [availableCopies EXCEPT ![b] = @ + needed]
               /\ events' = events \cup {delivered}
               /\ workers' = HandlerDone(w, "NULL")
               /\ reqs' = MarkAllStale

\* handleReminderJob: the transaction body and its commit.
HandleReminderJob(w) ==
    /\ workers[w].pc = "handler" /\ workers[w].type = "REMINDER"
    /\ UNCHANGED <<clockVars, idemKeys, last, users, availableCopies, seededCopies,
                   borrows, purchases, movements, jobs, milestoneReached>>
    /\ LET j == workers[w].job
           bid == jobs[j].borrowId
           mail == Email("REMINDER", <<"REMINDER", bid>>)
           sent == Event("REMINDER_SENT", <<"REMINDER_SENT", bid>>)
       IN IF bid \notin Ids(borrows)
          THEN /\ workers' = HandlerDone(w, "NULL")
               /\ UNCHANGED <<emails, events, reqs>>
          ELSE IF ~BorrowIsActive(bid)
          THEN /\ workers' = HandlerDone(w, "NULL")
               /\ UNCHANGED <<emails, events, reqs>>
          ELSE IF HasReminderEmail(mail)
          THEN /\ workers' = HandlerDone(w, "NULL")
               /\ UNCHANGED <<emails, events, reqs>>
          ELSE IF mail \in emails \/ EventExists(sent)
          THEN \* a create violates Unique(dedupeKey): the transaction rolls back
               /\ workers' = HandlerDone(w, "UNIQUE_CONSTRAINT")
               /\ UNCHANGED <<emails, events, reqs>>
          ELSE /\ emails' = emails \cup {mail}
               /\ events' = events \cup {sent}
               /\ workers' = HandlerDone(w, "NULL")
               /\ reqs' = MarkAllStale

\* The handler's transaction is refused by the store (serialization failure,
\* timeout, lost connection): the handler throws and nothing is written.
HandlerFails(w) ==
    /\ workers[w].pc = "handler"
    /\ workers' = HandlerDone(w, "TRANSACTION_FAILED")
    /\ UNCHANGED <<clockVars, idemKeys, reqs, last>>
    /\ UNCHANGED dbVars

\* The runner's process dies or is restarted: what it was doing is lost, the
\* Job row stays as the last write left it.
Crash(w) ==
    /\ workers[w].pc # "idle"
    /\ workers' = [workers EXCEPT ![w] = IdleWorker]
    /\ UNCHANGED <<clockVars, idemKeys, reqs, last>>
    /\ UNCHANGED dbVars

\* claimedJob.attempts >= claimedJob.maxAttempts of the catch branch.
AttemptsExhaustedAbove(attempts, maxAttempts) == attempts > maxAttempts

AttemptsExhausted(attempts, maxAttempts) == attempts >= maxAttempts

\* processJob after the handler: the completion, retry or failure update.
Finish(w) ==
    /\ workers[w].pc = "finish"
    /\ LET j == workers[w].job
           err == workers[w].error
       IN jobs' = [jobs EXCEPT ![j] =
            IF err = "NULL"
            THEN [@ EXCEPT !.status = "COMPLETED", !.activeKey = NoKey,
                           !.completedAt = now, !.lastError = "NULL"]
            ELSE IF AttemptsExhausted(workers[w].attempts, workers[w].maxAttempts)
            THEN [@ EXCEPT !.status = "FAILED", !.activeKey = NoKey,
                           !.lastError = err, !.completedAt = now]
            ELSE [@ EXCEPT !.status = "PENDING", !.lastError = err,
                           !.runAt = calculateBackoff(workers[w].attempts),
                           !.lockedAt = NoTime]]
    /\ workers' = [workers EXCEPT ![w] = NextJob(w)]
    /\ reqs' = MarkAllStale
    /\ UNCHANGED <<clockVars, idemKeys, last, users, availableCopies, seededCopies,
                   borrows, purchases, movements, events, emails, milestoneReached>>

(************************** initial states *********************************)
\* The seeded wallet: one INITIAL_BALANCE movement.
SeededMovements ==
    {Movement("INITIAL_BALANCE", INITIAL_BALANCE_CENTS, <<"INITIAL_BALANCE", 0>>)}

\* The state after seeding, with the given copies of each book.
Seeded(copies) ==
    /\ now = 0 /\ ticks = 0
    /\ users = {}
    /\ availableCopies = copies
    /\ seededCopies = copies
    /\ borrows = <<>>
    /\ purchases = <<>>
    /\ movements = SeededMovements
    /\ events = {}
    /\ emails = {}
    /\ jobs = <<>>
    /\ milestoneReached = FALSE
    /\ idemKeys = {}
    /\ reqs = [s \in Slots |-> IdleReq]
    /\ last = NoneDelivered
    /\ workers = [w \in Workers |-> IdleWorker]

(*********** all operations: two users, one book, one runner ***************)
Init == Seeded([b \in Books |-> 2])

MainUsers == {"a@b.c", "d@b.c"}

Quiet == \A s \in Slots : SlotFree(s)

Next ==
    \/ \E r \in Slots : BorrowRoom(MaxBorrowRows) /\ Issue(r, "borrow", "a@b.c", "b1", 0)
    \/ \E r \in Slots : Issue(r, "return", "a@b.c", "b1", 0)
    \/ \E r \in Slots, p \in 1..MaxPurchaseRows : Issue(r, "cancel", "d@b.c", NoBook, p)
    \/ \E r \in Slots : PurchaseRoom(MaxPurchaseRows) /\ IssueBuy(r, "d@b.c", "b1", "k1")
    \/ \E r \in Slots : Begin(r)
    \/ \E r \in Slots : BorrowBook(r)
    \/ \E r \in Slots : ReturnBook(r)
    \/ \E r \in Slots : BuyBook(r)
    \/ \E r \in Slots : CancelPurchase(r)
    \/ \E r \in Slots : StoreIdempotencyKey(r)
    \/ \E r \in Slots : SerializationFailure(r)
    \/ \E w \in 1..MaxWorkers : Poll(w)
    \/ \E w \in 1..MaxWorkers : Claim(w)
    \/ \E w \in 1..MaxWorkers : HandleRestockJob(w)
    \/ \E w \in 1..MaxWorkers : Finish(w)
    \/ Quiet /\ ticks < MaxTicks /\ Tick(RESTOCK_DELAY_MS)

Spec == Init /\ [][Next]_vars

(***************************** inventory **********************************)
\* C1: in every reachable state, under any interleaving of borrow, buy, return,
\* cancel and restock, every book's availableCopies is >= 0.
InventoryNonNegative == \A b \in Books : availableCopies[b] >= 0

\* A borrow or buy was refused at the conditional update with no copy left.
DecrementRefusedAtZero ==
    /\ availableCopies["b1"] = 0
    /\ last.resp.code = "NO_COPIES_AVAILABLE"

(********** the last copy: distinct users, one request each ****************)
LastCopyInit == Seeded([b \in Books |-> 1])

LastCopyNext ==
    \/ \E r \in Slots, u \in Users : u \notin users /\ Issue(r, "borrow", u, "b1", 0)
    \/ \E r \in Slots, u \in Users : u \notin users /\ IssueBuy(r, u, "b1", "k1")
    \/ \E r \in Slots : BorrowBook(r)
    \/ \E r \in Slots : BuyBook(r)
    \/ \E r \in Slots : StoreIdempotencyKey(r)
    \/ \E r \in Slots : SerializationFailure(r)

SpecLastCopy == LastCopyInit /\ [][LastCopyNext]_vars

\* Every request issued has been answered.
AllAnswered == users # {} /\ \A s \in Slots : ~HasSnapshot(reqs[s])

\* C2: for a book with one copy and requests from distinct users, a success
\* creates the one row there is, every other response is NO_COPIES_AVAILABLE
\* or a serialization failure, and once all are answered exactly one has
\* succeeded and availableCopies is 0.
LastCopyExactlyOneSuccess ==
    LET rows == Len(borrows) + Len(purchases)
    IN /\ rows <= 1
       /\ last.resp.status = 200 => ~last.resp.isExisting /\ ~last.replayed /\ rows = 1
       /\ last.resp.status # 200 =>
             last.resp.code \in {"none", "NO_COPIES_AVAILABLE", "INTERNAL_ERROR"}
       /\ last.resp.code = "INTERNAL_ERROR" => last.resp.status = 500
       /\ last.resp.code = "NO_COPIES_AVAILABLE" => last.resp.status = 409
       /\ AllAnswered => rows = 1 /\ availableCopies["b1"] = 0

\* All three users were answered and the last one was refused the copy.
LastCopyAllAnswered ==
    /\ users = Users
    /\ AllAnswered
    /\ last.resp.code = "NO_COPIES_AVAILABLE"
    /\ availableCopies["b1"] = 0

(************ borrow and return: one user, several books *******************)
\* The books are alike to a borrower: the user turns to them in this order.
BorrowBooks == <<"b1", "b2", "b3", "b4">>

\* The books the user has asked for, and the next one.
KnownBooks ==
    {BorrowBooks[i] : i \in 1..Min(Len(borrows) + InFlight("borrow") + 1, Len(BorrowBooks))}

BorrowNext ==
    \/ \E r \in Slots, b \in KnownBooks :
          BorrowRoom(MaxBorrows) /\ Issue(r, "borrow", "a@b.c", b, 0)
    \/ \E r \in Slots, b \in KnownBooks : Issue(r, "return", "a@b.c", b, 0)
    \/ \E r \in Slots : Begin(r)
    \/ \E r \in Slots : BorrowBook(r)
    \/ \E r \in Slots : ReturnBook(r)
    \/ \E r \in Slots : SerializationFailure(r)

SpecBorrow == Init /\ [][BorrowNext]_vars

\* C3: in every reachable state every user has at most 3 ACTIVE borrows, also
\* when the user's borrows of distinct books run in parallel.
AtMostThreeActiveBorrows ==
    \A u \in Users :
        Cardinality({i \in Ids(borrows) :
            borrows[i].userId = u /\ borrows[i].status = "ACTIVE"}) <= 3

\* The user holds three borrows and a fourth was refused.
FourthBorrowRefused ==
    /\ Cardinality({i \in Ids(borrows) : borrows[i].status = "ACTIVE"}) = 3
    /\ last.resp.code = "BORROW_LIMIT_EXCEEDED"

(************* repeated borrow and return of one book **********************)
RepeatNext ==
    \/ \E r \in Slots, u \in MainUsers :
          BorrowRoom(MaxReborrows) /\ Issue(r, "borrow", u, "b1", 0)
    \/ \E r \in Slots, u \in MainUsers : Issue(r, "return", u, "b1", 0)
    \/ \E r \in Slots : Begin(r)
    \/ \E r \in Slots : BorrowBook(r)
    \/ \E r \in Slots : ReturnBook(r)
    \/ \E r \in Slots : SerializationFailure(r)

SpecRepeat == Init /\ [][RepeatNext]_vars

\* The transaction of slot r, of operation op, ends in this step.
Ends(r, op) == reqs[r].pc = "body" /\ reqs[r].op = op /\ reqs'[r].pc = "idle"

\* The rows of u and b of the given status.
BorrowsOf(u, b, status) ==
    {i \in Ids(borrows) :
        borrows[i].userId = u /\ borrows[i].bookId = b /\ borrows[i].status = status}

\* C8: a borrow by a user who holds an ACTIVE borrow of the book changes
\* nothing (inventory, wallet, events, jobs, emails, borrow rows) and, unless
\* a concurrent write makes it fail, returns that row with isExisting = true.
BorrowAgainIsNoOp ==
    [][\A r \in Slots :
         Ends(r, "borrow") /\ BorrowsOf(reqs[r].user, reqs[r].isbn, "ACTIVE") # {} =>
            /\ UNCHANGED <<availableCopies, movements, events, jobs, emails, borrows>>
            /\ ~reqs[r].stale => last'.resp.status = 200
            /\ last'.resp.status = 200 =>
                  /\ last'.resp.isExisting
                  /\ last'.resp.rowStatus = "ACTIVE"
                  /\ last'.resp.id \in BorrowsOf(reqs[r].user, reqs[r].isbn, "ACTIVE")
            /\ last'.resp.status # 200 => last'.resp.status = 500]_vars

\* A second borrow was answered with the first row.
BorrowAnsweredExisting ==
    /\ last.op = "borrow"
    /\ last.resp.isExisting
    /\ last.resp.id \in BorrowsOf(last.user, "b1", "ACTIVE")

\* The row of u and b returned last.
LastReturned(u, b) ==
    CHOOSE i \in BorrowsOf(u, b, "RETURNED") : \A j \in BorrowsOf(u, b, "RETURNED") : j <= i

\* C9: a return by a user whose borrow of the book is already RETURNED
\* succeeds with isExisting = true and that row, leaves availableCopies and
\* the rows unchanged and adds no event: the borrow keeps its one RETURN event.
ReturnAgainIsNoOp ==
    [][\A r \in Slots :
         LET u == reqs[r].user
             b == reqs[r].isbn
         IN Ends(r, "return") /\ BorrowsOf(u, b, "ACTIVE") = {}
                              /\ BorrowsOf(u, b, "RETURNED") # {} =>
               /\ UNCHANGED <<availableCopies, movements, events, jobs, emails, borrows>>
               /\ Event("RETURN", <<"RETURN", LastReturned(u, b)>>) \in events
               /\ ~reqs[r].stale => last'.resp.status = 200
               /\ last'.resp.status = 200 =>
                     /\ last'.resp.isExisting
                     /\ last'.resp.rowStatus = "RETURNED"
                     /\ last'.resp.id = LastReturned(u, b)
               /\ last'.resp.status # 200 => last'.resp.status = 500]_vars

\* A second return was answered with the returned row.
ReturnAnsweredExisting ==
    /\ last.op = "return"
    /\ last.resp.isExisting
    /\ last.resp.rowStatus = "RETURNED"
    /\ borrows[last.resp.id].status = "RETURNED"

(*************** buys and cancels of one user and one book ******************)
BuyInit == Seeded([b \in Books |-> 3])

\* The ACTIVE purchases of u and b.
ActivePurchases(u, b) ==
    {i \in Ids(purchases) :
        purchases[i].userId = u /\ purchases[i].bookId = b /\ purchases[i].status = "ACTIVE"}

BuyNext ==
    \/ \E r \in Slots, k \in 1..MaxBuys :
          PurchaseRoom(MaxBuys) /\ IssueBuy(r, "d@b.c", "b1", Keys[k])
    \/ \E r \in Slots, p \in 1..MaxBuys : Issue(r, "cancel", "d@b.c", NoBook, p)
    \/ \E r \in Slots : Begin(r)
    \/ \E r \in Slots : BuyBook(r)
    \/ \E r \in Slots : CancelPurchase(r)
    \/ \E r \in Slots : StoreIdempotencyKey(r)
    \/ \E r \in Slots : SerializationFailure(r)

SpecBuy == BuyInit /\ [][BuyNext]_vars

\* C4: in every reachable state, for every user and book, at most 2 purchases
\* of the book by the user are ACTIVE, under parallel buys with distinct keys
\* and cancels.
AtMostTwoActivePerBook ==
    \A u \in Users, b \in Books : Cardinality(ActivePurchases(u, b)) <= 2

\* Two purchases are ACTIVE and a third buy, with a key of its own, was
\* refused.
ThirdBuyRefused ==
    /\ Cardinality(ActivePurchases("d@b.c", "b1")) = 2
    /\ last.resp.code = "BOOK_BUY_LIMIT_EXCEEDED"
    /\ ~last.replayed
    /\ availableCopies["b1"] = 1

(************ parallel and repeated buys with one key **********************)
SameKeyNext ==
    \/ \E r \in Slots, u \in MainUsers :
          PurchaseRoom(MaxBuys) /\ IssueBuy(r, u, "b1", "k1")
    \/ \E r \in Slots : Begin(r)
    \/ \E r \in Slots : BuyBook(r)
    \/ \E r \in Slots : StoreIdempotencyKey(r)
    \/ \E r \in Slots : SerializationFailure(r)

SpecSameKey == BuyInit /\ [][SameKeyNext]_vars

\* C6: buys by one user of one book with one X-Idempotency-Key, in parallel:
\* every success returns the same purchase id, availableCopies is decremented
\* by exactly 1 and there is one Purchase row and one BUY_INCOME movement.
SameKeyOnePurchase ==
    LET bought == {u \in MainUsers : \E i \in Ids(purchases) : purchases[i].userId = u}
        mine(u) == {i \in Ids(purchases) : purchases[i].userId = u}
    IN /\ \A u \in MainUsers : Cardinality(mine(u)) <= 1
       /\ Cardinality({m \in movements : m.type = "BUY_INCOME"}) = Cardinality(bought)
       /\ availableCopies["b1"] = seededCopies["b1"] - Cardinality(bought)
       /\ last.op = "buy" /\ last.resp.status = 200 =>
             \A i \in mine(last.user) : i = last.resp.id

\* The request q finds the response of an earlier buy with its key, by its
\* user and on its endpoint, already returned to the client.
EarlierReturned(q) ==
    \/ \E s \in Slots :
          /\ reqs[s].pc = "responded" /\ IsStorable(reqs[s].resp)
          /\ reqs[s].key = q.key /\ reqs[s].user = q.user /\ reqs[s].isbn = q.isbn
    \/ \E x \in idemKeys :
          /\ x.key = q.key /\ x.userId = q.user /\ x.endpoint = Endpoint(q.isbn)
          /\ x.expiresAt > now

\* The buy request of slot r arrives in this step and reaches the handler.
ReachesHandler(r) ==
    reqs[r].pc = "idle" /\ reqs'[r].pc \in {"issued", "body"} /\ reqs'[r].op = "buy"

\* C7: a buy with key K issued after an earlier buy by the same user on the
\* same endpoint with key K has returned is answered from the stored record:
\* it does not reach the handler, and a replay changes no row.
ReplayAfterReturn ==
    [][/\ \A r \in Slots : ReachesHandler(r) => ~EarlierReturned(reqs'[r])
       /\ last'.replayed /\ last' # last =>
             /\ UNCHANGED <<availableCopies, purchases, movements, events>>
             /\ \E x \in idemKeys : x.response = last'.resp]_vars

(******************** the total limit of purchases *************************)
LimitBooks == <<"b1", "b2", "b3", "b4", "b5", "b6">>

\* The user buys the books two by two: the book of the n-th purchase.
BookOfRow(n) == LimitBooks[Min((n + 1) \div 2, Len(LimitBooks))]

\* The purchase the next buy request would create.
NextRow == Len(purchases) + InFlight("buy") + 1

\* The user's requests come one after the other up to the eighth purchase,
\* and in parallel from then on.
NearLimit == Len(purchases) >= MAX_TOTAL_COPIES - 2

LimitNext ==
    \/ \E r \in Slots :
          /\ PurchaseRoom(MaxLimitBuys)
          /\ NearLimit \/ Quiet
          /\ IssueBuy(r, "d@b.c", BookOfRow(NextRow), Keys[NextRow])
    \/ \E r \in Slots : NearLimit /\ Issue(r, "cancel", "d@b.c", NoBook, 1)
    \/ \E r \in Slots : Begin(r)
    \/ \E r \in Slots : BuyBook(r)
    \/ \E r \in Slots : CancelPurchase(r)
    \/ \E r \in Slots : StoreIdempotencyKey(r)
    \/ \E r \in Slots : SerializationFailure(r)

SpecLimit == BuyInit /\ [][LimitNext]_vars

\* C5: in every reachable state every user has at most 10 ACTIVE purchases
\* across all books, under parallel buys and cancels.
AtMostTenActivePurchases ==
    \A u \in Users :
        Cardinality({i \in Ids(purchases) :
            purchases[i].userId = u /\ purchases[i].status = "ACTIVE"}) <= 10

\* Ten purchases are ACTIVE and an eleventh buy was refused.
EleventhBuyRefused ==
    /\ Cardinality({i \in Ids(purchases) : purchases[i].status = "ACTIVE"}) = 10
    /\ last.resp.code = "TOTAL_BUY_LIMIT_EXCEEDED"

(********************* cancellation of a purchase **************************)
CancelNext ==
    \/ \E r \in Slots, k \in 1..MaxPurchaseRows :
          PurchaseRoom(MaxPurchaseRows) /\ IssueBuy(r, "d@b.c", "b1", Keys[k])
    \/ \E r \in Slots, p \in 1..MaxPurchaseRows : Issue(r, "cancel", "d@b.c", NoBook, p)
    \/ \E r \in Slots : Begin(r)
    \/ \E r \in Slots : BuyBook(r)
    \/ \E r \in Slots : CancelPurchase(r)
    \/ \E r \in Slots : StoreIdempotencyKey(r)
    \/ \E r \in Slots : SerializationFailure(r)
    \/ \E d \in {CANCEL_WINDOW_MS, 1} : ticks < MaxCancelTicks /\ Tick(d)

SpecCancel == BuyInit /\ [][CancelNext]_vars

\* The purchase the cancel request of slot r names is its user's.
OwnsPurchase(r) ==
    /\ reqs[r].pid \in Ids(purchases)
    /\ purchases[reqs[r].pid].userId = reqs[r].user

\* The CANCEL_REFUND movements and CANCEL_BUY events of purchase p.
RefundsOf(ms, p) ==
    {m \in ms : m.type = "CANCEL_REFUND" /\ m.dedupeKey = <<"CANCEL", p>>}

CancelEventsOf(es, p) ==
    {e \in es : e.type = "CANCEL_BUY" /\ e.dedupeKey = <<"CANCEL_BUY", p>>}

\* The cancel that ends in this step leaves purchase p CANCELED with one
\* refund and one event; p was ACTIVE and is canceled with one increment, or
\* p was CANCELED and nothing changes.
CanceledOnce(p) ==
    /\ purchases'[p].status = "CANCELED" =>
          /\ Cardinality(RefundsOf(movements', p)) = 1
          /\ Cardinality(CancelEventsOf(events', p)) = 1
    /\ purchases[p].status = "ACTIVE" /\ purchases'[p].status = "CANCELED" =>
          /\ availableCopies' =
                [availableCopies EXCEPT ![purchases[p].bookId] = @ + 1]
          /\ RefundsOf(movements, p) = {}
          /\ CancelEventsOf(events, p) = {}
    /\ purchases[p].status = "CANCELED" =>
          UNCHANGED <<availableCopies, purchases, movements, events, jobs, emails>>

\* C10 as stated: any number of cancels of a purchase by its owner, also
\* concurrent ones and repeats after the 5-minute window, make one refund, one
\* increment and one CANCEL_BUY event, and every cancel of a CANCELED purchase
\* succeeds with isExisting = true.
CancelAgainSucceeds ==
    [][\A r \in Slots :
         Ends(r, "cancel") /\ OwnsPurchase(r) =>
            /\ CanceledOnce(reqs[r].pid)
            /\ purchases[reqs[r].pid].status = "CANCELED" =>
                  last'.resp = Response(200, "OK", reqs[r].pid, TRUE, "CANCELED")]_vars

\* C10 amended: any number of cancels of a purchase by its owner make one
\* refund, one increment and one CANCEL_BUY event; a cancel of a CANCELED
\* purchase changes nothing and succeeds with isExisting = true, also after the
\* 5-minute window, unless it ran concurrently with a committed write, when
\* it may instead fail with 500.
CancelAgainIsNoOp ==
    [][\A r \in Slots :
         Ends(r, "cancel") /\ OwnsPurchase(r) =>
            /\ CanceledOnce(reqs[r].pid)
            /\ purchases[reqs[r].pid].status = "CANCELED" =>
                  \/ last'.resp = Response(200, "OK", reqs[r].pid, TRUE, "CANCELED")
                  \/ /\ reqs[r].stale
                     /\ last'.resp = Response(500, "INTERNAL_ERROR", 0, FALSE, "none")]_vars

\* A repeated cancel issued after the window was answered with the CANCELED
\* purchase.
CancelRepeatedAfterWindow ==
    /\ last.op = "cancel"
    /\ last.resp.isExisting
    /\ last.pid \in Ids(purchases)
    /\ purchases[last.pid].status = "CANCELED"
    /\ now - purchases[last.pid].purchasedAt > CANCEL_WINDOW_MS

(***************************** wallet ledger ******************************)
\* What a step is, read off the rows it changes.
CreatesBorrow == Len(borrows') = Len(borrows) + 1

CreatesPurchase == Len(purchases') = Len(purchases) + 1

CancelsPurchase ==
    \E p \in Ids(purchases) :
        purchases[p].status = "ACTIVE" /\ purchases'[p].status = "CANCELED"

RestockedBooks ==
    {b \in Books : /\ availableCopies'[b] > availableCopies[b]
                   /\ \E e \in events' \ events : e.type = "RESTOCK_DELIVERED"}

ExpectedBalanceChange ==
    IF CreatesBorrow THEN borrowPriceCents[borrows'[Len(borrows')].bookId]
    ELSE IF CreatesPurchase THEN sellPriceCents[purchases'[Len(purchases')].bookId]
    ELSE IF CancelsPurchase
    THEN LET p == CHOOSE q \in Ids(purchases) :
                      purchases[q].status = "ACTIVE" /\ purchases'[q].status = "CANCELED"
         IN 0 - purchases[p].priceCents
    ELSE IF RestockedBooks # {}
    THEN LET b == CHOOSE c \in RestockedBooks : TRUE
         IN 0 - ((availableCopies'[b] - availableCopies[b]) * stockPriceCents[b])
    ELSE 0

\* C11: the balance is the sum of the movement rows; every step only appends
\* movement rows, and changes the balance by +borrowPriceCents for a new borrow,
\* +sellPriceCents for a new purchase, -priceCents for a first cancel,
\* -needed*stockPriceCents for an effective restock, and by 0 otherwise
\* (idempotent repeats, rejected operations, everything else).
LedgerAppendOnlyAndExact ==
    [][/\ movements \subseteq movements'
       /\ SumAmounts(movements') - SumAmounts(movements) = ExpectedBalanceChange]_vars

\* A borrow, a purchase, its cancel and a restock have all been booked, and the
\* cancel has been repeated with the existing result.
AllMovementKindsBooked ==
    /\ \A t \in {"BORROW_INCOME", "BUY_INCOME", "CANCEL_REFUND", "RESTOCK_EXPENSE"} :
          \E m \in movements : m.type = t
    /\ last.op = "cancel" /\ last.resp.isExisting

(***************************** restock job *********************************)
\* Two users borrow one book while two runners poll, claim, run, fail, crash
\* and re-claim its restock job.
RestockNext ==
    \/ \E r \in Slots, u \in MainUsers :
          BorrowRoom(MaxRestockBorrows) /\ Issue(r, "borrow", u, "b2", 0)
    \/ \E r \in Slots : Begin(r)
    \/ \E r \in Slots : BorrowBook(r)
    \/ \E r \in Slots : SerializationFailure(r)
    \/ \E w \in Workers : Poll(w)
    \/ \E w \in Workers : Claim(w)
    \/ \E w \in Workers : HandleRestockJob(w)
    \/ \E w \in Workers : HandlerFails(w)
    \/ \E w \in Workers : Finish(w)
    \/ \E w \in Workers : Crash(w)
    \/ \E d \in {RESTOCK_DELAY_MS, LEASE_TIMEOUT_MS + 1} :
          ticks < MaxRestockTicks /\ Tick(d)

SpecRestock == Init /\ [][RestockNext]_vars

RestockExpenses(ms, j) == {m \in ms : m.dedupeKey = <<"RESTOCK", j>>}

\* A step of a job handler that commits.
HandlerCommits == \E w \in Workers : workers[w].pc = "handler" /\ workers'[w].pc = "finish"

\* C12: however often a RESTOCK job is executed (re-run after a crash between
\* the handler's commit and the completion update, retries, reclaim after the
\* lease while the first runner is still at work), there is at most one
\* RESTOCK_EXPENSE movement with its key, and every increase of availableCopies
\* by a restock comes in the same step as a new debit of copiesAdded * stockPriceCents.
RestockDebitedExactlyOnce ==
    [][/\ \A j \in Ids(jobs') : Cardinality(RestockExpenses(movements', j)) <= 1
       /\ \A b \in Books :
            (HandlerCommits /\ availableCopies'[b] > availableCopies[b]) =>
               \E m \in movements' \ movements :
                  /\ m.type = "RESTOCK_EXPENSE"
                  /\ m.amountCents =
                        0 - ((availableCopies'[b] - availableCopies[b]) * stockPriceCents[b])]_vars

\* A restock job that had already delivered is run again while copies are
\* missing: the run is rolled back.
RestockRerunRolledBack ==
    \E w \in Workers :
       /\ workers[w].pc = "finish" /\ workers[w].error = "UNIQUE_CONSTRAINT"
       /\ RestockExpenses(movements, workers[w].job) # {}
       /\ jobs[workers[w].job].attempts >= 2

(***************************** reminder job ********************************)
\* One user borrows and returns a book (3 copies: no restock) while two
\* runners poll, claim, run, fail, crash and re-claim the reminder job.
ReminderInit == Seeded([b \in Books |-> 3])

ReminderNext ==
    \/ \E r \in Slots :
          BorrowRoom(MaxReminderBorrows) /\ Issue(r, "borrow", "a@b.c", "b2", 0)
    \/ \E r \in Slots : Issue(r, "return", "a@b.c", "b2", 0)
    \/ \E r \in Slots : Begin(r)
    \/ \E r \in Slots : BorrowBook(r)
    \/ \E r \in Slots : ReturnBook(r)
    \/ \E r \in Slots : SerializationFailure(r)
    \/ \E w \in Workers : Poll(w)
    \/ \E w \in Workers : Claim(w)
    \/ \E w \in Workers : HandleReminderJob(w)
    \/ \E w \in Workers : HandlerFails(w)
    \/ \E w \in Workers : Finish(w)
    \/ \E w \in Workers : Crash(w)
    \/ \E d \in {BORROW_DURATION_MS, LEASE_TIMEOUT_MS + 1} :
          ticks < MaxReminderTicks /\ Tick(d)

SpecReminder == ReminderInit /\ [][ReminderNext]_vars

ReminderEmail(bid) == Email("REMINDER", <<"REMINDER", bid>>)

ReminderSent(bid) == Event("REMINDER_SENT", <<"REMINDER_SENT", bid>>)

\* The step is a run of the reminder handler's own code by runner w.
RunsReminder(w) ==
    /\ workers[w].pc = "handler" /\ workers[w].type = "REMINDER"
    /\ workers'[w].pc = "finish" /\ workers'[w].error # "TRANSACTION_FAILED"

Holds(w, j) == workers[w].pc \in {"handler", "finish"} /\ workers[w].job = j

\* C13: for every borrow at most one REMINDER email and at most one
\* REMINDER_SENT event exist however often its reminder job is processed
\* (retried, re-claimed after the lease, run by two runners at once): the email
\* and the event are created together, and a run that finds the email changes
\* nothing and ends without error.
ReminderExactlyOnce ==
    [][\A bid \in Ids(borrows') :
         /\ Cardinality({e \in emails' : e.dedupeKey = <<"REMINDER", bid>>}) <= 1
         /\ Cardinality({e \in events' : e.dedupeKey = <<"REMINDER_SENT", bid>>}) <= 1
         /\ (ReminderEmail(bid) \in emails' \ emails) <=> (ReminderSent(bid) \in events' \ events)
         /\ \A w \in Workers :
              (/\ RunsReminder(w) /\ jobs[workers[w].job].borrowId = bid
               /\ ReminderEmail(bid) \in emails)
              => /\ emails' = emails /\ events' = events
                 /\ workers'[w].error = "NULL"]_vars

\* Two runners have run the reminder job of one active borrow and both ended
\* without error: one of them sent the email, the other found it.
ReminderRunTwice ==
    \E w1, w2 \in Workers :
       /\ w1 # w2
       /\ workers[w1].pc = "finish" /\ workers[w2].pc = "finish"
       /\ workers[w1].type = "REMINDER" /\ workers[w1].job = workers[w2].job
       /\ workers[w1].error = "NULL" /\ workers[w2].error = "NULL"
       /\ LET bid == jobs[workers[w1].job].borrowId
          IN borrows[bid].activeKey # NoKey /\ ReminderEmail(bid) \in emails

\* C14: no reminder email is created for a returned borrow: whenever a step
\* creates the REMINDER email of borrow B, B is ACTIVE (activeKey set) in that
\* step; a run of the handler on a returned borrow creates no email and no
\* event and ends without error, and the job is then written COMPLETED.
ReminderOnlyForActiveBorrow ==
    [][\A bid \in Ids(borrows) :
         /\ (ReminderEmail(bid) \in emails' \ emails) =>
               (borrows[bid].status = "ACTIVE" /\ borrows[bid].activeKey # NoKey)
         /\ \A w \in Workers :
              /\ (/\ RunsReminder(w) /\ jobs[workers[w].job].borrowId = bid
                  /\ borrows[bid].status # "ACTIVE")
                 => /\ emails' = emails /\ events' = events
                    /\ workers'[w].error = "NULL"
              /\ (/\ workers[w].pc = "finish" /\ workers[w].type = "REMINDER"
                  /\ workers[w].error = "NULL"
                  /\ workers'[w] # workers[w] /\ jobs' # jobs
                  /\ jobs[workers[w].job].borrowId = bid)
                 => jobs'[workers[w].job].status = "COMPLETED"]_vars

\* A reminder job was run after its borrow had been returned: no email, and
\* the job is COMPLETED.
ReminderSkippedForReturned ==
    \E j \in Ids(jobs) :
       /\ jobs[j].type = "REMINDER" /\ jobs[j].status = "COMPLETED"
       /\ borrows[jobs[j].borrowId].status = "RETURNED"
       /\ ReminderEmail(jobs[j].borrowId) \notin emails

(***************************** job rows ************************************)
\* C15: in every reachable state, under any interleaving of claim, complete,
\* retry and fail with a return that cancels the reminder job, a Job's
\* activeKey is set exactly when its status is PENDING or PROCESSING.
ActiveKeyIffLive ==
    \A j \in Ids(jobs) :
       (jobs[j].activeKey # NoKey) <=> (jobs[j].status \in {"PENDING", "PROCESSING"})

LiveRestockJobs(b) ==
    {j \in Ids(jobs) :
        jobs[j].type = "RESTOCK" /\ jobs[j].bookId = b /\ jobs[j].activeKey # NoKey}

\* C16: for every book there is at most one Job of type RESTOCK with a
\* non-NULL activeKey, also under concurrent borrows and buys by several users.
AtMostOneLiveRestockJob == \A b \in Books : Cardinality(LiveRestockJobs(b)) <= 1

\* The book fell to the low-stock level a second time (borrow, return, then a
\* buy by another user) while the restock job of the first time was still live.
LowStockAgainWhileJobLive ==
    /\ last.op = "buy" /\ last.resp.status = 200 /\ ~last.replayed
    /\ availableCopies["b1"] = 1
    /\ \E i \in Ids(borrows) : borrows[i].status = "RETURNED"
    /\ \A e \in events : e.type # "RESTOCK_DELIVERED"
    /\ Cardinality({j \in Ids(jobs) : jobs[j].type = "RESTOCK"}) = 1
    /\ Cardinality(LiveRestockJobs("b1")) = 1

(***************************** borrow rows *********************************)
\* C17: for every (user, book) there is at most one Borrow row with a non-NULL
\* activeKey, also when the user's borrow requests for the book run in parallel.
AtMostOneActiveBorrowRow ==
    \A u \in Users, b \in Books :
       Cardinality({i \in Ids(borrows) :
                      /\ borrows[i].userId = u /\ borrows[i].bookId = b
                      /\ borrows[i].activeKey # NoKey}) <= 1

\* A borrow request that was in flight while the same user's borrow of the
\* same book committed (the only row there is) is about to run its transaction.
ParallelBorrowBehindCommit ==
    \E r \in Slots :
       /\ reqs[r].pc = "body" /\ reqs[r].op = "borrow" /\ reqs[r].stale
       /\ ActiveBorrowIds(reqs[r].user, reqs[r].isbn) # {}
       /\ Len(borrows) = 1

(***************************** milestone ***********************************)
MilestoneEmails(es) == {e \in es : e.dedupeKey = <<"MILESTONE", 2000>>}

MilestoneEvents(es) == {e \in es : e.dedupeKey = <<"MILESTONE_EMAIL", 2000>>}

\* C18: milestoneReached only ever goes from false to true; at most one
\* MILESTONE:2000 email and one MILESTONE_EMAIL event exist; they are created in
\* the step that sets the flag, whose transaction sees a balance above 200000
\* cents; steps after that create none.
MilestoneOnlyOnce ==
    [][/\ milestoneReached => milestoneReached'
       /\ Cardinality(MilestoneEmails(emails')) <= 1
       /\ Cardinality(MilestoneEvents(events')) <= 1
       /\ (MilestoneEmails(emails') # MilestoneEmails(emails))
             <=> (~milestoneReached /\ milestoneReached')
       /\ (MilestoneEvents(events') # MilestoneEvents(events))
             <=> (~milestoneReached /\ milestoneReached')
       /\ (~milestoneReached /\ milestoneReached')
             => SumAmounts(movements') > WALLET_MILESTONE_CENTS]_vars

\* After the milestone a cancel took the balance back to 200000 cents or less,
\* and a further buy that will take it above again is about to run.
BuyAfterMilestoneBelow ==
    /\ milestoneReached
    /\ getBalance <= WALLET_MILESTONE_CENTS
    /\ Cardinality(MilestoneEmails(emails)) = 1
    /\ \E r \in Slots :
          /\ reqs[r].pc = "body" /\ reqs[r].op = "buy" /\ ~reqs[r].stale
          /\ availableCopies[reqs[r].isbn] >= 1
          /\ getBalance + sellPriceCents[reqs[r].isbn] > WALLET_MILESTONE_CENTS

ClaimSucceeds(w, j) ==
    workers[w].pc = "claim" /\ workers'[w].pc = "handler" /\ workers'[w].job = j

LeaseNext ==
    \/ \E r \in Slots :
          BorrowRoom(MaxBorrowRows) /\ Issue(r, "borrow", "a@b.c", "b2", 0)
    \/ \E r \in Slots : BorrowBook(r)
    \/ \E w \in 1..MaxWorkers : Poll(w)
    \/ \E w \in 1..MaxWorkers : Claim(w)
    \/ \E w \in 1..MaxWorkers : HandleRestockJob(w)
    \/ \E w \in 1..MaxWorkers : HandlerFails(w)
    \/ \E w \in 1..MaxWorkers : Finish(w)
    \/ \E w \in 1..MaxWorkers : workers[w].pc \in {"handler", "finish"} /\ Crash(w)
    \/ ticks < MaxLeaseTicks /\ Tick(RESTOCK_DELAY_MS)

SpecLease ==
    /\ Init /\ [][LeaseNext]_vars
    /\ \A w \in 1..MaxWorkers :
          /\ WF_vars(Poll(w)) /\ WF_vars(Claim(w))
          /\ WF_vars(HandleRestockJob(w)) /\ WF_vars(Finish(w))

\* The job was left PROCESSING with its activeKey and its lease has expired.
LeftProcessing(j) ==
    /\ j \in Ids(jobs)
    /\ jobs[j].activeKey # NoKey /\ jobs[j].status = "PROCESSING"
    /\ jobs[j].lockedAt < now - LEASE_TIMEOUT_MS

\* C20: a job left PROCESSING by a crashed or stalled runner is re-claimed
\* by a later poll once its lockedAt is older than the lease of 60 s, whatever
\* its attempts counter: under a fair runner it does not stay that way forever.
LeftProcessingIsReclaimed ==
    \A j \in 1..MaxLeaseJobs : [](LeftProcessing(j) => <>~LeftProcessing(j))

\* Runner w is about to try its claim on a job that is PROCESSING under a
\* lease at most 60 s old.
ClaimsUnderFreshLease(w) ==
    /\ workers[w].pc = "claim"
    /\ LET j == Head(workers[w].queue)
       IN /\ jobs[j].status = "PROCESSING"
          /\ jobs[j].lockedAt >= now - LEASE_TIMEOUT_MS

\* C21: a claim attempt on a job that is PROCESSING with lockedAt newer than
\* now - 60 s affects no row: status, attempts and lockedAt of the job are
\* unchanged and the claimer goes on without running the handler.
FreshLeaseClaimSkipped ==
    [][\A w \in Workers :
         (ClaimsUnderFreshLease(w) /\ workers'[w] # workers[w])
            => (jobs' = jobs /\ workers'[w].pc # "handler")]_vars

\* One runner holds a job it has just claimed while the other, which polled
\* the same job, is about to try its claim.
SecondClaimPending ==
    \E w1, w2 \in Workers :
       /\ w1 # w2 /\ ClaimsUnderFreshLease(w2)
       /\ Holds(w1, Head(workers[w2].queue))

(***************************** job outcomes ********************************)
\* Runner w writes the outcome of a failed run in this step.
WritesFailure(w) ==
    /\ workers[w].pc = "finish" /\ workers[w].error # "NULL"
    /\ workers'[w].pc # "finish" /\ jobs' # jobs

\* C22: when the handler fails on an attempt with attempts >= maxAttempts the
\* job becomes FAILED with activeKey NULL, completedAt set and lastError
\* recorded; when it fails with attempts < maxAttempts the job becomes PENDING
\* with its activeKey preserved, lockedAt NULL, lastError recorded and runAt
\* moved into the future by the backoff delay.
FailureOutcome ==
    [][\A w \in Workers :
         WritesFailure(w) =>
            LET j == workers[w].job
                n == workers[w].attempts
            IN IF n >= workers[w].maxAttempts
               THEN /\ jobs'[j].status = "FAILED" /\ jobs'[j].activeKey = NoKey
                    /\ jobs'[j].completedAt = now
                    /\ jobs'[j].lastError = workers[w].error
               ELSE /\ jobs'[j].status = "PENDING"
                    /\ jobs'[j].activeKey = jobs[j].activeKey
                    /\ jobs'[j].lockedAt = NoTime
                    /\ jobs'[j].lastError = workers[w].error
                    /\ jobs'[j].runAt = now + Min(BASE_BACKOFF_MS * Pow2(n - 1), MAX_BACKOFF_MS)
                    /\ jobs'[j].runAt > now]_vars

\* A job has failed on its last attempt, after earlier attempts were retried.
FailedOnLastAttempt ==
    \E j \in Ids(jobs) :
       /\ jobs[j].status = "FAILED" /\ jobs[j].activeKey = NoKey
       /\ jobs[j].attempts = jobs[j].maxAttempts /\ jobs[j].lastError # "NULL"

(***************************** restock funds *******************************)
\* Two users borrow both copies of the book whose stock price is 6000 cents,
\* one request at a time; one runner runs the restock job hour after hour.
\* Restocking one copy is affordable, restocking two is not.
FundsNext ==
    \/ \E r \in Slots, u \in MainUsers :
          Quiet /\ BorrowRoom(MaxRestockBorrows) /\ Issue(r, "borrow", u, "b1", 0)
    \/ \E r \in Slots : BorrowBook(r)
    \/ \E r \in Slots : SerializationFailure(r)
    \/ \E w \in 1..MaxWorkers : Poll(w)
    \/ \E w \in 1..MaxWorkers : Claim(w)
    \/ \E w \in 1..MaxWorkers : HandleRestockJob(w)
    \/ \E w \in 1..MaxWorkers : Finish(w)
    \/ ticks < MaxFundsTicks /\ Tick(RESTOCK_DELAY_MS)

SpecFunds == Init /\ [][FundsNext]_vars

\* Runner w runs the restock handler in this step, on a book that needs copies
\* the wallet cannot pay for.
RunsUnfundedRestock(w) ==
    /\ workers[w].pc = "handler" /\ workers[w].type = "RESTOCK"
    /\ workers'[w].pc = "finish" /\ workers'[w].error # "TRANSACTION_FAILED"
    /\ LET b == jobs[workers[w].job].bookId
       IN Needed(b) > 0 /\ getBalance < Needed(b) * stockPriceCents[b]

\* Such a run raises the error and changes nothing.
UnfundedRestockChangesNothing ==
    \A w \in Workers :
       RunsUnfundedRestock(w) =>
          /\ workers'[w].error = "INSUFFICIENT_FUNDS"
          /\ movements' = movements /\ availableCopies' = availableCopies
          /\ events' = events

\* Runner w writes the outcome of a run that raised INSUFFICIENT_FUNDS.
WritesUnfunded(w) == WritesFailure(w) /\ workers[w].error = "INSUFFICIENT_FUNDS"

\* The job goes back to PENDING: activeKey kept, attempts one more than before
\* the claim, lastError set, runAt in the future.
BackToPending(w) ==
    LET j == workers[w].job
    IN /\ jobs'[j].status = "PENDING" /\ jobs'[j].activeKey = jobs[j].activeKey
       /\ jobs'[j].activeKey # NoKey
       /\ jobs'[j].attempts = workers[w].attempts
       /\ jobs'[j].lastError = "INSUFFICIENT_FUNDS"
       /\ jobs'[j].runAt > now

StillClaimedBy(w) ==
    LET j == workers[w].job
    IN /\ jobs[j].status = "PROCESSING"
       /\ jobs[j].attempts = workers[w].attempts
       /\ jobs[j].lockedAt = workers[w].lockedAt

RunsRestock(w) ==
    /\ workers[w].pc = "handler" /\ workers[w].type = "RESTOCK"
    /\ workers'[w].pc = "finish" /\ workers'[w].error # "TRANSACTION_FAILED"

RestockBook(w) == jobs[workers[w].job].bookId

Missing(b) == seededCopies[b] - availableCopies[b]

Affordable(b) == getBalance >= Missing(b) * stockPriceCents[b]

HasDelivered(j) == \E e \in events : e.dedupeKey = <<"RESTOCK_DELIVERED", j>>

\* The run restocks the book to seededCopies and debits the wallet for it.
RestocksFully(w) ==
    LET b == RestockBook(w)
    IN /\ availableCopies'[b] = seededCopies[b]
       /\ SumAmounts(movements') - SumAmounts(movements)
             = 0 - (Missing(b) * stockPriceCents[b])
       /\ workers'[w].error = "NULL"

\* The run skips: nothing needed.
SkipsRestock(w) ==
    /\ movements' = movements /\ availableCopies' = availableCopies
    /\ workers'[w].error = "NULL"

\* The completion write after a restock run that ended without error.
CompletesRestock(w) ==
    (/\ workers[w].pc = "finish" /\ workers[w].type = "RESTOCK"
     /\ workers[w].error = "NULL"
     /\ workers'[w] # workers[w] /\ jobs' # jobs)
    => /\ jobs'[workers[w].job].status = "COMPLETED"
       /\ jobs'[workers[w].job].activeKey = NoKey

CallBackoff(w) ==
    /\ workers[w].pc = "backoff"
    /\ workers' = [workers EXCEPT ![w] =
                     [@ EXCEPT !.pc = "backedoff",
                               !.nextRunAt = calculateBackoff(workers[w].attempts)]]
    /\ UNCHANGED <<clockVars, idemKeys, reqs, last>>
    /\ UNCHANGED dbVars

EnterBackoff(w, n) ==
    /\ workers[w].pc = "idle"
    /\ workers' = [workers EXCEPT ![w] = [IdleWorker EXCEPT !.pc = "backoff", !.attempts = n]]
    /\ UNCHANGED <<clockVars, idemKeys, reqs, last>>
    /\ UNCHANGED dbVars

BackoffNext ==
    \/ \E w \in 1..MaxWorkers, n \in 1..MaxBackoffAttempts : EnterBackoff(w, n)
    \/ \E w \in 1..MaxWorkers : CallBackoff(w)
    \/ \E d \in {1, BASE_BACKOFF_MS} :
          /\ \A w \in Workers : workers[w].pc # "backedoff"
          /\ ticks < MaxBackoffTicks /\ Tick(d)

SpecBackoff == Init /\ [][BackoffNext]_vars

\* The law in seconds: min(60 * 2^(attempts-1), 3600).
LawSeconds(n) == IF 60 * Pow2(n - 1) < 3600 THEN 60 * Pow2(n - 1) ELSE 3600

\* C25: for every attempts >= 1 the retry delay is min(60 * 2^(attempts-1),
\* 3600) seconds: 60, 120, 240, ... doubling per attempt, non-decreasing in
\* attempts, and exactly 3600 for every attempts >= 7.
BackoffLaw ==
    \A w \in Workers :
       workers[w].pc = "backedoff" =>
          LET n == workers[w].attempts
              delay == workers[w].nextRunAt - now
          IN /\ delay = 1000 * LawSeconds(n)
             /\ (n = 1) => delay = 60 * 1000
             /\ (n >= 7) => delay = 3600 * 1000
             /\ (n > 1) => delay >= BackoffDelay(n - 1)
             /\ (n > 1 /\ n < 7) => delay = 2 * BackoffDelay(n - 1)

\* The call was made with an attempt number at which the cap applies, at a
\* time other than 0.
BackoffCapped ==
    \E w \in Workers :
       /\ workers[w].pc = "backedoff" /\ workers[w].attempts = MaxBackoffAttempts
       /\ now > 0 /\ workers[w].nextRunAt = now + MAX_BACKOFF_MS

(**************** the purchases the buy limits count ***********************)
\* One user, one request at a time, each buy under a key not used before:
\* the book bought two by two or "b1" again, and cancels of the first two
\* purchases.
NextKey == Keys[Cardinality(idemKeys) + 1]

CountNext ==
    \/ \E r \in Slots, b \in {"b1", BookOfRow(NextRow)} :
          /\ Quiet
          /\ PurchaseRoom(MaxCountBuys)
          /\ Cardinality(idemKeys) < Len(Keys)
          /\ b = "b1" => (Len(purchases) < 4 \/ NearLimit)
          /\ IssueBuy(r, "d@b.c", b, NextKey)
    \/ \E r \in Slots, p \in 1..2 :
          Quiet /\ Issue(r, "cancel", "d@b.c", NoBook, p)
    \/ \E r \in Slots : BuyBook(r)
    \/ \E r \in Slots : CancelPurchase(r)
    \/ \E r \in Slots : StoreIdempotencyKey(r)

SpecCount == BuyInit /\ [][CountNext]_vars

\* The user's ACTIVE purchases, of all books.
AllActivePurchases(u) ==
    {i \in Ids(purchases) : purchases[i].userId = u /\ purchases[i].status = "ACTIVE"}

\* The buy transaction of slot r ends in this step, with this response.
BuyAnswered(r) ==
    /\ reqs[r].pc = "body" /\ reqs[r].op = "buy"
    /\ reqs'[r].pc = "responded"

\* C26: every buy transaction that ends is refused with
\* BOOK_BUY_LIMIT_EXCEEDED exactly when the user has 2 or more ACTIVE
\* purchases of the book, is refused with TOTAL_BUY_LIMIT_EXCEEDED exactly
\* when it is below that and the user has 10 or more ACTIVE purchases, and
\* otherwise, when a copy is available, adds an ACTIVE purchase: CANCELED
\* purchases are not counted, so a buy after the cancel of a counted
\* purchase succeeds.
OnlyActivePurchasesCount ==
    [][\A r \in Slots : BuyAnswered(r) =>
          LET u == reqs[r].user
              b == reqs[r].isbn
              perBook == Cardinality(ActivePurchases(u, b)) >= 2
              total == Cardinality(AllActivePurchases(u)) >= 10
              code == reqs'[r].resp.code
          IN /\ (code = "BOOK_BUY_LIMIT_EXCEEDED") <=> perBook
             /\ (code = "TOTAL_BUY_LIMIT_EXCEEDED") <=> (~perBook /\ total)
             /\ (~perBook /\ ~total /\ availableCopies[b] >= 1) =>
                   /\ code = "OK"
                   /\ Len(purchases') = Len(purchases) + 1
                   /\ purchases'[Len(purchases')].status = "ACTIVE"
                   /\ purchases'[Len(purchases')].bookId = b]_vars

\* Both limits refused a buy, the first two purchases were canceled, and the
\* twelfth purchase has just been made: ten purchases are ACTIVE.
BoughtAfterCancel ==
    /\ \E x \in idemKeys : x.response.code = "BOOK_BUY_LIMIT_EXCEEDED"
    /\ \E x \in idemKeys : x.response.code = "TOTAL_BUY_LIMIT_EXCEEDED"
    /\ Len(purchases) = 12
    /\ purchases[1].status = "CANCELED" /\ purchases[2].status = "CANCELED"
    /\ Cardinality(AllActivePurchases("d@b.c")) = 10
    /\ last.op = "buy" /\ last.resp.code = "OK" /\ last.resp.id = 12

(************************ the cancellation window **************************)
\* The cancel transaction of slot r reaches its answer in this step: it is
\* not aborted by the database.
CancelDecided(r) ==
    /\ Ends(r, "cancel")
    /\ OwnsPurchase(r)
    /\ last'.resp.status # 500

\* C27: every cancel transaction on an ACTIVE purchase that reaches its
\* answer cancels the purchase, with its refund and its increment, exactly
\* when now - purchasedAt <= 5 minutes; otherwise it is rejected with 400
\* CANCELLATION_WINDOW_EXPIRED, the purchase stays ACTIVE, and no refund and
\* no inventory change is made.
CancelOnlyWithinWindow ==
    [][\A r \in Slots :
         LET p == reqs[r].pid IN
         CancelDecided(r) /\ purchases[p].status = "ACTIVE" =>
            IF now - purchases[p].purchasedAt <= CANCEL_WINDOW_MS
            THEN /\ purchases'[p].status = "CANCELED"
                 /\ last'.resp = Response(200, "OK", p, FALSE, "CANCELED")
                 /\ Cardinality(RefundsOf(movements', p)) = 1
                 /\ RefundsOf(movements, p) = {}
                 /\ availableCopies' =
                       [availableCopies EXCEPT ![purchases[p].bookId] = @ + 1]
            ELSE /\ last'.resp.status = 400
                 /\ last'.resp.code = "CANCELLATION_WINDOW_EXPIRED"
                 /\ purchases'[p].status = "ACTIVE"
                 /\ UNCHANGED <<availableCopies, purchases, movements, events>>]_vars

\* The first purchase was canceled exactly 5 minutes after it was made, and
\* the cancel of the second, one millisecond past its 5 minutes, was
\* rejected.
CanceledAtWindowEnd ==
    /\ Len(purchases) = 2
    /\ purchases[1].status = "CANCELED"
    /\ purchases[1].canceledAt - purchases[1].purchasedAt = CANCEL_WINDOW_MS
    /\ purchases[2].status = "ACTIVE"
    /\ last.op = "cancel" /\ last.pid = 2
    /\ last.resp.code = "CANCELLATION_WINDOW_EXPIRED"
    /\ now - purchases[2].purchasedAt = CANCEL_WINDOW_MS + 1

(***************** the reminder job of a returned borrow *******************)
\* The REMINDER jobs of a borrow that is RETURNED after this step.
ReminderJobsOfReturned ==
    {j \in Ids(jobs) :
        /\ jobs[j].type = "REMINDER"
        /\ jobs[j].borrowId \in Ids(borrows')
        /\ borrows'[jobs[j].borrowId].status = "RETURNED"}

\* C28: once the return of a borrow has committed, every REMINDER job of
\* the borrow has activeKey NULL, and the job that was live when the return
\* ran has status CANCELED from the return on and in every later state, also
\* when a worker held the job while the return ran.
CanceledReminderStaysCanceled ==
    [][\A j \in ReminderJobsOfReturned :
          /\ jobs'[j].activeKey = NoKey
          /\ (jobs[j].activeKey # NoKey \/ jobs[j].status = "CANCELED") =>
                jobs'[j].status = "CANCELED"]_vars

(****************** one transaction body per user **************************)
\* The transaction of slot r runs its read-check-write body.
InBody(r) ==
    /\ reqs[r].pc = "body"
    /\ reqs[r].op \in {"borrow", "return", "buy", "cancel"}

\* C29: in every reachable state every borrow, return, buy and cancel whose
\* transaction body runs holds the advisory lock of its user, and no two
\* transaction bodies of the same user run at the same time.
OneBodyPerUser ==
    /\ \A r \in Slots : InBody(r) => reqs[r].lock = lockKeyOf[reqs[r].user]
    /\ \A r, s \in Slots :
          InBody(r) /\ InBody(s) /\ reqs[r].user = reqs[s].user => r = s

(********************* the low-stock notification **************************)
\* The rows a step adds.
NewJobs == {j \in Ids(jobs') : j > Len(jobs)}

NewRestockJobs == {j \in NewJobs : jobs'[j].type = "RESTOCK"}

NewLowStockEmails == {e \in emails' \ emails : e.type = "LOW_STOCK"}

NewLowStockEvents ==
    {e \in events' \ events : e.type \in {"LOW_STOCK_EMAIL", "RESTOCK_SCHEDULED"}}

\* The step is the commit of a borrow or a buy of b: one copy less.
DecrementsTo(b, copies) ==
    /\ availableCopies[b] = copies + 1
    /\ availableCopies'[b] = copies
    /\ CreatesBorrow \/ CreatesPurchase

\* A RESTOCK job of b with its activeKey, before the step.
LiveRestockJobOf(b) ==
    \E j \in Ids(jobs) :
        jobs[j].type = "RESTOCK" /\ jobs[j].bookId = b /\ jobs[j].activeKey # NoKey

\* Every RESTOCK job has its LOW_STOCK email and every LOW_STOCK email its
\* RESTOCK job, after the step.
EmailPerRestockJob ==
    /\ \A j \in Ids(jobs') :
          jobs'[j].type = "RESTOCK" =>
             Email("LOW_STOCK", <<"LOW_STOCK", jobs'[j].bookId, j>>) \in emails'
    /\ \A e \in emails' :
          e.type = "LOW_STOCK" =>
             /\ e.dedupeKey[3] \in Ids(jobs')
             /\ jobs'[e.dedupeKey[3]].type = "RESTOCK"
             /\ jobs'[e.dedupeKey[3]].bookId = e.dedupeKey[2]

\* C30: a borrow or buy that leaves exactly 1 copy of a book without a live
\* RESTOCK job adds, in its own step, one PENDING RESTOCK job with activeKey
\* RESTOCK:book and runAt = now + 1 h, one LOW_STOCK email and the
\* LOW_STOCK_EMAIL and RESTOCK_SCHEDULED events of that job; every other
\* step adds none of these; and LOW_STOCK emails and RESTOCK jobs correspond
\* one to one.
LowStockSchedulesRestock ==
    [][/\ IF \E b \in Books : DecrementsTo(b, 1) /\ ~LiveRestockJobOf(b)
          THEN LET b == CHOOSE c \in Books : DecrementsTo(c, 1)
                   j == CHOOSE i \in NewRestockJobs : TRUE
               IN /\ Cardinality(NewRestockJobs) = 1
                  /\ jobs'[j].bookId = b
                  /\ jobs'[j].status = "PENDING"
                  /\ jobs'[j].activeKey = <<"RESTOCK", b>>
                  /\ jobs'[j].runAt = now + 60 * 60 * 1000
                  /\ NewLowStockEmails = {Email("LOW_STOCK", <<"LOW_STOCK", b, j>>)}
                  /\ NewLowStockEvents =
                        {Event("LOW_STOCK_EMAIL", <<"LOW_STOCK_EMAIL", b, j>>),
                         Event("RESTOCK_SCHEDULED", <<"RESTOCK_SCHEDULED", j>>)}
          ELSE /\ NewRestockJobs = {}
               /\ NewLowStockEmails = {}
               /\ NewLowStockEvents = {}
       /\ EmailPerRestockJob]_vars

\* A buy left 1 copy of "b1" and scheduled the restock; the purchase was
\* canceled; the borrow that has just been answered left 1 copy again, and
\* the one RESTOCK job, still live, is the only one.
LowStockTwiceOneJob ==
    /\ Quiet
    /\ last.op = "borrow" /\ last.resp.code = "OK" /\ ~last.resp.isExisting
    /\ availableCopies["b1"] = 1
    /\ Len(purchases) = 1 /\ purchases[1].status = "CANCELED"
    /\ Len(jobs) = 2
    /\ jobs[1].type = "RESTOCK" /\ jobs[1].activeKey # NoKey /\ jobs[1].attempts = 0
    /\ jobs[2].type = "REMINDER"
    /\ Cardinality({e \in emails : e.type = "LOW_STOCK"}) = 1

(***************** the scope of an idempotency record **********************)
\* Two users buy two books, every request under the same key.
ScopeBooks == {"b1", "b2"}

ScopeNext ==
    \/ \E r \in Slots, u \in MainUsers, b \in ScopeBooks :
          /\ PurchaseRoom(MaxScopeBuys) \/ IdemRecord("k1", u, Endpoint(b)) # {}
          /\ IssueBuy(r, u, b, "k1")
    \/ \E r \in Slots : Begin(r)
    \/ \E r \in Slots : BuyBook(r)
    \/ \E r \in Slots : StoreIdempotencyKey(r)
    \/ \E r \in Slots : SerializationFailure(r)

SpecScope == BuyInit /\ [][ScopeNext]_vars

\* A stored response is replayed in this step.
Replays == last' # last /\ last'.replayed

\* C31: every replayed response comes from the record stored under the key,
\* the user and the endpoint (hence the book) of the request that receives
\* it, and a replayed purchase is a purchase of that user and that book; a
\* request whose (key, user, endpoint) has no unexpired record is not
\* answered by a replay, whatever is stored under the key for other users
\* or other books.
ReplayOnlyOwnRecord ==
    [][/\ Replays =>
            /\ \E x \in idemKeys :
                  /\ x.key = last'.key /\ x.userId = last'.user
                  /\ x.endpoint = Endpoint(last'.isbn)
                  /\ x.response = last'.resp
            /\ last'.resp.code = "OK" =>
                  /\ last'.resp.id \in Ids(purchases)
                  /\ purchases[last'.resp.id].userId = last'.user
                  /\ purchases[last'.resp.id].bookId = last'.isbn
       /\ \A r \in Slots :
            (reqs[r].pc = "idle" /\ reqs'[r].pc # "idle" /\ reqs'[r].op = "buy") =>
               ~\E x \in idemKeys :
                     /\ x.key = reqs'[r].key /\ x.userId = reqs'[r].user
                     /\ x.endpoint = Endpoint(reqs'[r].isbn)
                     /\ IsFresh(x)]_vars

\* Under the one key each user bought each book, four purchases with four
\* records, and the last request was answered by a replay.
SameKeyFourPurchases ==
    /\ Len(purchases) = 4
    /\ Cardinality(idemKeys) = 4
    /\ \A x \in idemKeys : x.key = "k1" /\ x.response.code = "OK"
    /\ \A u \in MainUsers, b \in ScopeBooks :
          \E i \in Ids(purchases) : purchases[i].userId = u /\ purchases[i].bookId = b
    /\ last.replayed

(************************ terminal job states ******************************)
TerminalJobStatuses == {"COMPLETED", "FAILED", "CANCELED"}

\* C32: a job whose status is COMPLETED, FAILED or CANCELED keeps that
\* status in every step: no write of a runner changes it, also not the
\* completion or failure write of a runner that held the job when a return
\* canceled it.
TerminalStatusIsAbsorbing ==
    [][\A j \in Ids(jobs) :
          jobs[j].status \in TerminalJobStatuses =>
             jobs'[j].status = jobs[j].status]_vars

(******************* the life of a borrow and a purchase *******************)
\* C33: a Borrow that is RETURNED and a Purchase that is CANCELED never
\* change again, and a step changes an ACTIVE row only to RETURNED, or to
\* CANCELED; in every state a Borrow is ACTIVE exactly when its activeKey is
\* the pair of its user and book, exactly when its returnedAt is NULL, its
\* activeKey being NULL otherwise, and a Purchase is CANCELED exactly when
\* its canceledAt is set.
LifecyclesAreOneWay ==
    [][/\ \A i \in Ids(borrows) :
             /\ borrows[i].status = "RETURNED" => borrows'[i] = borrows[i]
             /\ borrows'[i].status \in {borrows[i].status, "RETURNED"}
       /\ \A i \in Ids(purchases) :
             /\ purchases[i].status = "CANCELED" => purchases'[i] = purchases[i]
             /\ purchases'[i].status \in {purchases[i].status, "CANCELED"}
       /\ \A i \in Ids(borrows') :
             LET row == borrows'[i] IN
             /\ row.status \in {"ACTIVE", "RETURNED"}
             /\ row.status = "ACTIVE" <=> row.activeKey = <<row.userId, row.bookId>>
             /\ row.status = "ACTIVE" <=> row.returnedAt = NoTime
             /\ row.status = "RETURNED" => row.activeKey = NoKey
       /\ \A i \in Ids(purchases') :
             LET row == purchases'[i] IN
             /\ row.status \in {"ACTIVE", "CANCELED"}
             /\ row.status = "CANCELED" <=> row.canceledAt # NoTime]_vars

\* A borrow was returned, one purchase was canceled and another is ACTIVE.
ReturnedAndCanceled ==
    /\ \E i \in Ids(borrows) :
          borrows[i].status = "RETURNED" /\ borrows[i].returnedAt # NoTime
    /\ \E i \in Ids(purchases) : purchases[i].status = "CANCELED"
    /\ \E i \in Ids(purchases) : purchases[i].status = "ACTIVE"

(************************ conservation of copies ***************************)
\* The RESTOCK_EXPENSE movements of the jobs of book b: one per committed
\* restock of b.
RestocksOf(b) ==
    {m \in movements :
        /\ m.type = "RESTOCK_EXPENSE"
        /\ m.dedupeKey[2] \in Ids(jobs)
        /\ jobs[m.dedupeKey[2]].bookId = b}

\* copiesAdded of a committed restock of b: its cost is
\* copiesAdded * stockPriceCents.
RECURSIVE SumCopiesAdded(_, _)
SumCopiesAdded(ms, b) ==
    IF ms = {} THEN 0
    ELSE LET m == CHOOSE x \in ms : TRUE
         IN ((0 - m.amountCents) \div stockPriceCents[b]) + SumCopiesAdded(ms \ {m}, b)

ActiveBorrowsOfBook(b) ==
    {i \in Ids(borrows) : borrows[i].bookId = b /\ borrows[i].status = "ACTIVE"}

ActivePurchasesOfBook(b) ==
    {i \in Ids(purchases) : purchases[i].bookId = b /\ purchases[i].status = "ACTIVE"}

\* C34: in every reachable state, for every book, availableCopies plus the
\* number of ACTIVE borrows of the book plus the number of ACTIVE purchases
\* of the book equals the copies the book was seeded with plus the copies
\* added by its committed restocks.
CopiesAreConserved ==
    \A b \in Books :
        availableCopies[b] + Cardinality(ActiveBorrowsOfBook(b))
                           + Cardinality(ActivePurchasesOfBook(b))
          = seededCopies[b] + SumCopiesAdded(RestocksOf(b), b)

\* A restock added a copy of "b1" while a borrow was ACTIVE; since then a
\* purchase was made and another was canceled.
RestockedBoughtCanceled ==
    /\ SumCopiesAdded(RestocksOf("b1"), "b1") = 1
    /\ ActiveBorrowsOfBook("b1") # {}
    /\ ActivePurchasesOfBook("b1") # {}
    /\ \E i \in Ids(purchases) : purchases[i].status = "CANCELED"

(********************* the attempts of a job *******************************)
\* A second runner starts polling when a job is on its last attempts.
OnLastAttempts == \E j \in Ids(jobs) : jobs[j].attempts >= DEFAULT_MAX_ATTEMPTS - 1

AttemptsNext ==
    \/ \E r \in Slots :
          BorrowRoom(MaxBorrowRows) /\ Issue(r, "borrow", "a@b.c", "b2", 0)
    \/ \E r \in Slots : BorrowBook(r)
    \/ \E w \in Workers : (w = 1 \/ OnLastAttempts) /\ Poll(w)
    \/ \E w \in Workers : Claim(w)
    \/ \E w \in Workers : HandleRestockJob(w)
    \/ \E w \in Workers : HandlerFails(w)
    \/ \E w \in Workers : Finish(w)
    \/ \E w \in Workers : workers[w].pc \in {"handler", "finish"} /\ Crash(w)
    \/ ticks < MaxAttemptTicks /\ Tick(RESTOCK_DELAY_MS)

SpecAttempts == Init /\ [][AttemptsNext]_vars

\* C35: in every reachable state every job has attempts <= maxAttempts, also
\* with several runners and with a lease expiring between a runner's
\* listing of the due jobs and its claim.
AttemptsWithinMax ==
    \A j \in Ids(jobs) : jobs[j].attempts <= jobs[j].maxAttempts

(********************* every job comes to an end ***************************)
\* The restock runs the wallet cannot pay, under the one runner that keeps
\* polling and finishes what it started; the runner does not crash.
FundsFairNext ==
    \/ \E r \in Slots, u \in MainUsers :
          Quiet /\ BorrowRoom(MaxRestockBorrows) /\ Issue(r, "borrow", u, "b1", 0)
    \/ \E r \in Slots : BorrowBook(r)
    \/ \E r \in Slots : SerializationFailure(r)
    \/ Poll(1)
    \/ Claim(1)
    \/ HandleRestockJob(1)
    \/ Finish(1)
    \/ ticks < MaxFundsTicks /\ Tick(RESTOCK_DELAY_MS)

SpecFundsFair ==
    /\ Init /\ [][FundsFairNext]_vars
    /\ WF_vars(Poll(1)) /\ WF_vars(Claim(1))
    /\ WF_vars(HandleRestockJob(1)) /\ WF_vars(Finish(1))

\* Job j has its activeKey and is due, or is being run.
AwaitsRunner(j) ==
    /\ jobs[j].activeKey # NoKey
    /\ IsDue(j) \/ jobs[j].status = "PROCESSING"

NoJobAwaitsRunner == \A j \in Ids(jobs) : ~AwaitsRunner(j)

\* C36: under one fair runner that does not crash, a job that has its
\* activeKey and whose runAt has passed does not wait forever: again and
\* again every job is COMPLETED, FAILED or CANCELED with activeKey NULL, or
\* is PENDING with a runAt in the future after a failed run; the runs of a
\* job are at most maxAttempts, and a job whose handler fails on attempt
\* maxAttempts is FAILED with activeKey NULL.
EveryJobComesToAnEnd ==
    /\ []<>NoJobAwaitsRunner
    /\ [](\A j \in Ids(jobs) :
            /\ jobs[j].attempts <= jobs[j].maxAttempts
            /\ jobs[j].activeKey = NoKey <=> jobs[j].status \in TerminalJobStatuses
            /\ (jobs[j].status = "PENDING" /\ jobs[j].attempts > 0) =>
                  jobs[j].attempts < jobs[j].maxAttempts)

\* The restock the wallet could never pay was run maxAttempts times and is
\* FAILED, its activeKey NULL.
UnfundedRestockGaveUp ==
    \E j \in Ids(jobs) :
        /\ jobs[j].type = "RESTOCK" /\ jobs[j].status = "FAILED"
        /\ jobs[j].attempts = jobs[j].maxAttempts
        /\ jobs[j].lastError = "INSUFFICIENT_FUNDS"
        /\ jobs[j].activeKey = NoKey
        /\ \A w \in Workers : workers[w].pc = "idle"

(****************** the order of the checks of borrow **********************)
\* One request at a time: a@b.c borrows among four books, d@b.c and e@b.c
\* take copies of "b1" and "b4".
OrderNext ==
    \/ \E r \in Slots, b \in {"b1", "b2", "b3", "b4"} :
          Quiet /\ BorrowRoom(MaxOrderBorrows) /\ Issue(r, "borrow", "a@b.c", b, 0)
    \/ \E r \in Slots, b \in {"b1", "b4"} :
          Quiet /\ BorrowRoom(MaxOrderBorrows) /\ Issue(r, "borrow", "d@b.c", b, 0)
    \/ \E r \in Slots :
          Quiet /\ BorrowRoom(MaxOrderBorrows) /\ Issue(r, "borrow", "e@b.c", "b4", 0)
    \/ \E r \in Slots : BorrowBook(r)

SpecOrder == Init /\ [][OrderNext]_vars

\* The ACTIVE borrows of user u.
HeldBy(u) == {i \in Ids(borrows) : borrows[i].userId = u /\ borrows[i].status = "ACTIVE"}

\* C37: a borrow by a user who holds an ACTIVE borrow of the book is
\* answered with that borrow and isExisting = true and changes nothing, also
\* when the user has 3 ACTIVE borrows or the book has no copy; a borrow is
\* refused with BORROW_LIMIT_EXCEEDED exactly when the user does not hold
\* the book and has 3 ACTIVE borrows, whether or not a copy is available, and
\* with NO_COPIES_AVAILABLE exactly when the user does not hold the book, is
\* below the limit and the book has no copy.
ExistingBorrowCheckedFirst ==
    [][\A r \in Slots :
         (Ends(r, "borrow") /\ reqs[r].isbn \in Books /\ last'.resp.status # 500) =>
            LET u == reqs[r].user
                b == reqs[r].isbn
                held == {i \in HeldBy(u) : borrows[i].bookId = b}
                atLimit == Cardinality(HeldBy(u)) >= 3
                noCopy == availableCopies[b] < 1
                code == last'.resp.code
            IN /\ held # {} =>
                    /\ code = "OK" /\ last'.resp.isExisting
                    /\ last'.resp.id \in held
                    /\ UNCHANGED <<borrows, availableCopies, movements, jobs, events>>
               /\ (code = "BORROW_LIMIT_EXCEEDED") <=> (held = {} /\ atLimit)
               /\ (code = "NO_COPIES_AVAILABLE") <=>
                     (held = {} /\ ~atLimit /\ noCopy)]_vars

\* a@b.c, with 3 ACTIVE borrows, asked again for "b1", of which no copy is
\* left, and was answered with the borrow of "b1" it holds.
HeldBookAtLimitNoCopy ==
    /\ Cardinality(HeldBy("a@b.c")) = 3
    /\ availableCopies["b1"] = 0
    /\ last.op = "borrow" /\ last.user = "a@b.c" /\ last.isbn = "b1"
    /\ last.resp.code = "OK" /\ last.resp.isExisting

(******************* the life of an idempotency record *********************)
\* d@b.c buys b1 and b2, every request under the key k1, while the clock
\* advances by 12 h at a time.
ExpiryNext ==
    \/ \E r \in Slots, b \in ScopeBooks : IssueBuy(r, "d@b.c", b, "k1")
    \/ \E r \in Slots : Begin(r)
    \/ \E r \in Slots : BuyBook(r)
    \/ \E r \in Slots : StoreIdempotencyKey(r)
    \/ \E r \in Slots : SerializationFailure(r)
    \/ ticks < MaxExpiryTicks /\ Tick(IDEMPOTENCY_KEY_EXPIRY_MS \div 2)

SpecExpiry == BuyInit /\ [][ExpiryNext]_vars

\* The records of the cell of the buy request q.
CellOf(q) ==
    {x \in idemKeys : x.key = q.key /\ x.userId = q.user /\ x.endpoint = Endpoint(q.isbn)}

\* C38: a record is neither changed nor deleted while it is unexpired and a
\* cell never holds two records; the callback that follows a response stores
\* that response, expiring 24 h later, exactly when its status is below 500
\* and the cell is empty, and changes nothing otherwise; a buy that finds an
\* unexpired record in its cell is answered with the stored response without
\* running the handler, and a buy that finds none (none at all, as after a
\* response of status 500 or more, or an expired one) deletes the expired
\* record and runs the handler.
FirstStorableResponseKept ==
    [][/\ \A x \in idemKeys : IsFresh(x) => x \in idemKeys'
       /\ \A x, y \in idemKeys' :
             (x.key = y.key /\ x.userId = y.userId /\ x.endpoint = y.endpoint) => x = y
       /\ \A r \in Slots :
             (reqs[r].pc = "responded" /\ reqs'[r].pc = "idle") =>
                LET q == reqs[r]
                IN IF q.resp.status < 500 /\ CellOf(q) = {}
                   THEN /\ \E x \in idemKeys' :
                              /\ x.key = q.key /\ x.userId = q.user
                              /\ x.endpoint = Endpoint(q.isbn)
                              /\ x.response = q.resp /\ x.statusCode = q.resp.status
                              /\ x.expiresAt = now + IDEMPOTENCY_KEY_EXPIRY_MS
                              /\ idemKeys' = idemKeys \cup {x}
                   ELSE idemKeys' = idemKeys
       /\ \A r \in Slots :
             (reqs[r].pc = "idle" /\ reqs'[r].pc # "idle" /\ reqs'[r].op = "buy") =>
                LET q == reqs'[r]
                IN /\ \A x \in CellOf(q) : x.expiresAt <= now
                   /\ idemKeys' = idemKeys \ CellOf(q)
                   /\ last' = last
       /\ Replays =>
             /\ \E x \in idemKeys :
                   /\ x.key = last'.key /\ x.userId = last'.user
                   /\ x.endpoint = Endpoint(last'.isbn)
                   /\ x.expiresAt > now /\ x.response = last'.resp
             /\ UNCHANGED <<reqs, idemKeys>>
             /\ UNCHANGED dbVars]_vars

\* d@b.c holds a stored refusal of its third buy of b1, made after the
\* records of its first two buys had expired; its buy of b2 was answered
\* 500 and left no record, and it runs the handler for b2 again under the
\* same key.
RefusalKeptAndRetryAfter500 ==
    /\ \E x \in idemKeys :
          /\ x.endpoint = Endpoint("b1") /\ x.statusCode = 409 /\ x.expiresAt > now
    /\ last.isbn = "b2" /\ last.resp.status = 500
    /\ \A x \in idemKeys : x.endpoint # Endpoint("b2")
    /\ \E r \in Slots :
          reqs[r].pc = "body" /\ reqs[r].isbn = "b2" /\ reqs[r].key = last.key

(************************* refused operations ******************************)
\* One request at a time.  d@b.c buys b1 or an ISBN with no Book row, each
\* buy under a key not used before, and cancels its first two purchases;
\* a@b.c borrows the books one after the other, b1 again or the ISBN with no
\* Book row, returns b1 and asks to cancel the first purchase, which is not
\* its own; the clock advances by the cancellation window once the borrows
\* and returns are made.  Keys are used and Borrow rows created up to the
\* bounds.
RefusalNext ==
    \/ \E r \in Slots, b \in {"b1", NoBook} :
          /\ Quiet
          /\ Cardinality(idemKeys) < MaxRefusalKeys
          /\ IssueBuy(r, "d@b.c", b, NextKey)
    \/ \E r \in Slots, b \in {"b1", LimitBooks[Len(borrows) + 1], NoBook} :
          /\ Quiet /\ ticks = 0
          /\ \/ BorrowRoom(MaxRefusalBorrows)
             \/ b = NoBook
             \/ BorrowLimitReached("a@b.c")
          /\ Issue(r, "borrow", "a@b.c", b, 0)
    \/ \E r \in Slots : Quiet /\ ticks = 0 /\ Issue(r, "return", "a@b.c", "b1", 0)
    \/ \E r \in Slots, p \in 1..2 :
          Quiet /\ Issue(r, "cancel", "d@b.c", NoBook, p)
    \/ \E r \in Slots :
          Quiet /\ Issue(r, "cancel", "a@b.c", NoBook, 1)
    \/ \E r \in Slots : BorrowBook(r)
    \/ \E r \in Slots : ReturnBook(r)
    \/ \E r \in Slots : BuyBook(r)
    \/ \E r \in Slots : CancelPurchase(r)
    \/ \E r \in Slots : StoreIdempotencyKey(r)
    \/ ticks < MaxRefusalTicks /\ Quiet /\ Tick(CANCEL_WINDOW_MS)

SpecRefusal == Init /\ [][RefusalNext]_vars

\* The error codes of a refused borrow, return, buy and cancel.
RefusalCodes(op) ==
    CASE op = "borrow" -> {"BOOK_NOT_FOUND", "BORROW_LIMIT_EXCEEDED", "NO_COPIES_AVAILABLE"}
      [] op = "buy" -> {"BOOK_NOT_FOUND", "BOOK_BUY_LIMIT_EXCEEDED",
                        "TOTAL_BUY_LIMIT_EXCEEDED", "NO_COPIES_AVAILABLE"}
      [] op = "return" -> {"BORROW_NOT_FOUND"}
      [] op = "cancel" -> {"PURCHASE_NOT_FOUND", "CANCELLATION_WINDOW_EXPIRED"}
      [] OTHER -> {}

\* The handler of slot r answers in this step with one of its refusals.
Refused(r) ==
    /\ reqs[r].pc = "body" /\ reqs'[r].pc # "body"
    /\ last'.resp.code \in RefusalCodes(reqs[r].op)

\* C39: a step in which a borrow or a buy is refused with BOOK_NOT_FOUND, a
\* limit error or NO_COPIES_AVAILABLE, a return with BORROW_NOT_FOUND, or a
\* cancel with PURCHASE_NOT_FOUND or CANCELLATION_WINDOW_EXPIRED leaves the
\* Book, Borrow, Purchase, WalletMovement, Event, Job and SimulatedEmail
\* rows as they were.
RefusalChangesNothing ==
    [][\A r \in Slots :
          Refused(r) =>
             UNCHANGED <<availableCopies, seededCopies, borrows, purchases,
                         movements, events, jobs, emails>>]_vars

\* a@b.c was just refused the cancellation of an ACTIVE purchase of d@b.c,
\* still within its window.
CancelByOtherUserRefused ==
    /\ last.op = "cancel" /\ last.user = "a@b.c"
    /\ last.resp.code = "PURCHASE_NOT_FOUND"
    /\ last.pid \in Ids(purchases)
    /\ purchases[last.pid].userId = "d@b.c"
    /\ purchases[last.pid].status = "ACTIVE"
    /\ ~WindowExpired(purchases[last.pid])
    /\ "a@b.c" \in users

(*********************** restock and the wallet *****************************)
\* The borrows that bring the wallet near the price of two restocks: both
\* copies of b2, b3 and b4, then one copy of b1 and one of b5.
WalletBorrows ==
    <<<<"a@b.c", "b2">>, <<"d@b.c", "b2">>, <<"a@b.c", "b3">>, <<"d@b.c", "b3">>,
      <<"a@b.c", "b4">>, <<"d@b.c", "b4">>, <<"e@b.c", "b1">>, <<"e@b.c", "b5">>>>

\* Every borrow of the list has been made.
AllBorrowed == Len(borrows) = Len(WalletBorrows)

\* Another runner is inside or past its handler's transaction.
RunsBeside(w) == \E v \in Workers \ {w} : workers[v].pc \in {"handler", "finish"}

\* The borrows come in this order, one request at a time; one runner polls,
\* claims and runs the restock jobs from the start and a second one once the
\* borrows are made; a handler's transaction may be refused while the other
\* runner runs its own; the clock advances by the restock delay between
\* the requests and the runners' polls.  No purchase is made or canceled.
WalletNext ==
    \/ \E r \in Slots :
          /\ Quiet /\ ~AllBorrowed
          /\ LET next == WalletBorrows[Len(borrows) + 1]
             IN Issue(r, "borrow", next[1], next[2], 0)
    \/ \E r \in Slots : BorrowBook(r)
    \/ \E r \in Slots : SerializationFailure(r)
    \/ \E w \in Workers : (w = 1 \/ AllBorrowed) /\ Poll(w)
    \/ \E w \in Workers : Claim(w)
    \/ \E w \in Workers : HandleRestockJob(w)
    \/ \E w \in Workers : RunsBeside(w) /\ HandlerFails(w)
    \/ \E w \in Workers : Finish(w)
    \/ /\ ticks < MaxWalletTicks /\ Quiet
       /\ \A w \in Workers : workers[w].pc = "idle"
       /\ Tick(RESTOCK_DELAY_MS)

SpecWallet == Init /\ [][WalletNext]_vars

\* The price of the copies the book of runner w's job needs.
RestockCost(w) ==
    LET b == jobs[workers[w].job].bookId
    IN Needed(b) * stockPriceCents[b]

\* C40: the wallet balance is never negative, and a RESTOCK_EXPENSE is
\* appended only in a step before which the balance was at least its cost;
\* no purchase is canceled in these runs, and restock jobs of different
\* books are run by two runners at the same time.
RestockNeverOverdraws ==
    /\ [](getBalance >= 0)
    /\ [][\A m \in movements' \ movements :
             m.type = "RESTOCK_EXPENSE" =>
                /\ m.amountCents < 0
                /\ getBalance >= 0 - m.amountCents]_vars

\* Two runners ran the restock jobs of two books at the same time, the
\* wallet could pay for either but not for both: one was paid, the other
\* met insufficient funds, and the balance is not negative.
OneOfTwoRestocksPaid ==
    \E w, v \in Workers :
       /\ workers[w].pc = "finish" /\ workers[w].error = "NULL"
       /\ workers[v].pc = "finish" /\ workers[v].error = "INSUFFICIENT_FUNDS"
       /\ jobs[workers[w].job].bookId # jobs[workers[v].job].bookId
       /\ \E m \in movements :
             /\ m.dedupeKey = <<"RESTOCK", workers[w].job>>
             /\ getBalance - m.amountCents >= RestockCost(v)
       /\ getBalance >= 0 /\ getBalance < RestockCost(v)
====
